---- MODULE Spec2Model ----
(***************************************************************************)
(* Model of the bulk-file-editor ("merch") core: mergeFiles builds a       *)
(* document from files, parseMerchDoc reads it back, buildActions plans    *)
(* write/rename/delete actions and splitContent runs them against a        *)
(* MemoryFileSystem.                                                       *)
(*                                                                         *)
(* Representation.  A text is a sequence of tokens.  Ch(c) is a piece of   *)
(* plain text without line break (c = "\r" and c = "\n" are the two line   *)
(* break characters).  A header token stands for one formatted line        *)
(*   <prefix>merch::<cmd>: <JSON of data><":" if colon><suffix>            *)
(* Offsets are token indices (0-based, as in the source).  A nullable      *)
(* value is <<>> (null/undefined) or <<v>>.  A hash is [sha |-> content]:  *)
(* SHA-256 is taken to be injective.                                       *)
(***************************************************************************)
EXTENDS Integers, Sequences, FiniteSets, TLC

VARIABLES
    fs,         \* MemoryFileSystem.files: path -> content (DOMAIN = existing files)
    files,      \* the file list handed to mergeFiles
    content,    \* the merch document text
    pc,         \* position in the workflow merge -> edit -> split
    doc,        \* the ParsedMerchDoc of the running splitContent call
    actions,    \* the Action[] buildActions returned
    done,       \* number of actions the loop of splitContent has handled
    logs,       \* messages passed to the logger
    err,        \* the error the call failed with (NoError if none)
    fs0,        \* the filesystem when splitContent was called
    dryRun,     \* arguments of the running splitContent call
    checkHash,
    overwrote,  \* a rename of the running call replaced an existing file
    folded,     \* the last foldFile / unfoldFile call of the editor on the document
    analysis    \* the outcome of the last analyzeMerchDoc call on the document

vars == <<fs, files, content, pc, doc, actions, done, logs, err, fs0, dryRun,
          checkHash, overwrote, folded, analysis>>

----------------------------------------------------------------------------
(* Bounds of the model *)

\* longest file content (in characters) of the text specification
MaxLen == 2
\* most new-file blocks (headers without idx) one edit appends
MaxNew == 1

----------------------------------------------------------------------------
(* Characters, nullable values, paths *)

CR == "\r"
LF == "\n"

Ch(c) == [k |-> "ch", c |-> c]

Null == <<>>
Some(v) == <<v>>

\* path.posix over the paths of the model: a path is dir/name+ext
baseDir == "/src"
Rel(name) == [name |-> name, ext |-> ".txt"]
resolve(basePath, rel) == [dir |-> basePath, name |-> rel.name, ext |-> rel.ext]
relative(base, p) == [name |-> p.name, ext |-> p.ext]
dirname(p) == p.dir
extname(p) == p.ext
basename(p, ext) == p.name
join(dir, name, ext) == [dir |-> dir, name |-> name, ext |-> ext]

PA == resolve(baseDir, Rel("A"))
PB == resolve(baseDir, Rel("B"))
PC == resolve(baseDir, Rel("C"))
PATemp == resolve(baseDir, Rel("A_temp"))

----------------------------------------------------------------------------
(* utils: computeHash, detectLineEnding, normalizeLineEndings *)

computeHash(c) == [sha |-> c]

IsCh(t, c) == t.k = "ch" /\ t.c = c

\* content.indexOf('\r\n') !== -1
HasCRLF(c) == \E i \in 1..(Len(c) - 1) : IsCh(c[i], CR) /\ IsCh(c[i + 1], LF)
HasLF(c) == \E i \in 1..Len(c) : IsCh(c[i], LF)

detectLineEnding(c) ==
    IF HasCRLF(c) THEN Some(<<CR, LF>>)
    ELSE IF HasLF(c) THEN Some(<<LF>>)
    ELSE Null

LE(le) == [i \in 1..Len(le) |-> Ch(le[i])]

RECURSIVE ToCRLF(_)
\* content.replace(/\r?\n/g, '\r\n')
ToCRLF(c) ==
    IF c = <<>> THEN <<>>
    ELSE IF Len(c) >= 2 /\ IsCh(c[1], CR) /\ IsCh(c[2], LF)
         THEN <<Ch(CR), Ch(LF)>> \o ToCRLF(SubSeq(c, 3, Len(c)))
    ELSE IF IsCh(c[1], LF)
         THEN <<Ch(CR), Ch(LF)>> \o ToCRLF(Tail(c))
    ELSE <<c[1]>> \o ToCRLF(Tail(c))

RECURSIVE ToLF(_)
\* content.replace(/\r\n/g, '\n')
ToLF(c) ==
    IF c = <<>> THEN <<>>
    ELSE IF Len(c) >= 2 /\ IsCh(c[1], CR) /\ IsCh(c[2], LF)
         THEN <<Ch(LF)>> \o ToLF(SubSeq(c, 3, Len(c)))
    ELSE <<c[1]>> \o ToLF(Tail(c))

normalizeLineEndings(c, lineEnding) ==
    IF lineEnding = <<CR, LF>> THEN ToCRLF(c)
    ELSE IF lineEnding = <<LF>> THEN ToLF(c)
    ELSE c

----------------------------------------------------------------------------
(* MemoryFileSystem *)

exists(f, p) == p \in DOMAIN f
isFile(f, p) == p \in DOMAIN f
readFile(f, p) == f[p]
writeFile(f, p, c) == [q \in DOMAIN f \cup {p} |-> IF q = p THEN c ELSE f[q]]
delete(f, p) == [q \in DOMAIN f \ {p} |-> f[q]]
\* rename of an existing file: the entry moves, whatever newPath held is lost
rename(f, oldPath, newPath) ==
    [q \in (DOMAIN f \ {oldPath}) \cup {newPath} |->
        IF q = newPath THEN f[oldPath] ELSE f[q]]

----------------------------------------------------------------------------
(* LineFormatter and the header lines of a document *)

\* new LineFormatter('// ', ''): the formatter of the tests and the CLI default
formatter == [prefix |-> <<"/", "/", " ">>, suffix |-> <<>>]

NoData == [basePath |-> Null, path |-> Null, idx |-> Null, hash |-> Null, eol |-> Null]

\* formatter.format(`merch::${cmd}: ${JSON.stringify(data)}${colon}`)
Hdr(fmt, cmd, data, colon) ==
    [k |-> "hdr", prefix |-> fmt.prefix, suffix |-> fmt.suffix,
     cmd |-> cmd, data |-> data, colon |-> colon]

\* formatter.format('='.repeat(20))
Sep(fmt) == [k |-> "sep", prefix |-> fmt.prefix, suffix |-> fmt.suffix]

----------------------------------------------------------------------------
(* Builder: mergeFiles *)

Included(f, p) == exists(f, p) /\ isFile(f, p)

RECURSIVE mainLineEnding(_, _)
\* the detected ending of the first file that has one, '\n' by default
mainLineEnding(fl, f) ==
    IF fl = <<>> THEN <<LF>>
    ELSE IF Included(f, fl[1]) /\ detectLineEnding(readFile(f, fl[1])) # Null
         THEN detectLineEnding(readFile(f, fl[1]))[1]
    ELSE mainLineEnding(Tail(fl), f)

ExistingLine(fl, fmt, base, f, i, le) ==
    <<Hdr(fmt, "existing-file",
          [NoData EXCEPT !.path = Some(relative(base, fl[i + 1])),
                         !.idx = Some(i),
                         !.hash = Some(computeHash(readFile(f, fl[i + 1])))],
          FALSE)>> \o LE(le)

FileBlock(fl, fmt, base, withoutContent, f, i, le) ==
    LET fileLineEnding == detectLineEnding(readFile(f, fl[i + 1]))
        info == [NoData EXCEPT !.path = Some(relative(base, fl[i + 1])),
                               !.idx = Some(i),
                               !.eol = IF fileLineEnding # Null /\ fileLineEnding[1] # le
                                       THEN fileLineEnding ELSE Null]
    IN  <<Hdr(fmt, "file", info, ~withoutContent)>> \o LE(le)
        \o (IF withoutContent THEN <<>>
            ELSE normalizeLineEndings(readFile(f, fl[i + 1]), le) \o LE(le))

RECURSIVE ExistingLines(_, _, _, _, _, _)
ExistingLines(fl, fmt, base, f, i, le) ==
    IF i >= Len(fl) THEN <<>>
    ELSE (IF Included(f, fl[i + 1]) THEN ExistingLine(fl, fmt, base, f, i, le) ELSE <<>>)
         \o ExistingLines(fl, fmt, base, f, i + 1, le)

RECURSIVE FileBlocks(_, _, _, _, _, _, _)
FileBlocks(fl, fmt, base, withoutContent, f, i, le) ==
    IF i >= Len(fl) THEN <<>>
    ELSE (IF Included(f, fl[i + 1])
          THEN FileBlock(fl, fmt, base, withoutContent, f, i, le) ELSE <<>>)
         \o FileBlocks(fl, fmt, base, withoutContent, f, i + 1, le)

\* everything mergeFiles passes to writer.write, concatenated
mergeFiles(fl, fmt, base, withoutContent, f) ==
    LET le == mainLineEnding(fl, f)
    IN  <<Sep(fmt)>> \o LE(le)
        \o <<Hdr(fmt, "setup", [NoData EXCEPT !.basePath = Some(base)], FALSE)>> \o LE(le)
        \o ExistingLines(fl, fmt, base, f, 0, le)
        \o <<Sep(fmt)>> \o LE(le)
        \o LE(le)
        \o FileBlocks(fl, fmt, base, withoutContent, f, 0, le)

----------------------------------------------------------------------------
(* Parser: tryParseMerchLine and parseMerchDoc *)

IsBreak(tok) == IsCh(tok, CR) \/ IsCh(tok, LF)
EndsWithSpace(s) == s # <<>> /\ s[Len(s)] = " "
AllSpaces(s) == \A i \in 1..Len(s) : s[i] = " "

\* the token holds " merch::": its prefix supplies the blank before merch::
HasMerch(tok) == tok.k = "hdr" /\ EndsWithSpace(tok.prefix)

\* the end (exclusive) of the line that starts at offset o
LineEnd(t, o) ==
    CHOOSE e \in o..Len(t) :
        /\ e = Len(t) \/ IsBreak(t[e + 1])
        /\ \A j \in o..(e - 1) : ~IsBreak(t[j + 1])

\* merchHeaderRegex /^.*? merch::.*$/gm matches the line [s, e)
HeaderLike(t, s, e) == \E j \in s..(e - 1) : HasMerch(t[j + 1])

\* /^.*? merch::([a-zA-Z0-9-]+):\s*(\{.*\})\s*(:)?$/ on the line [s, e):
\* the first " merch::" of the line must be followed by the command, the
\* JSON object, blanks and the optional colon, and then the line must end.
\* Null when the regex does not match, else the MerchLine.
tryParseMerchLine(t, s, e) ==
    LET j == CHOOSE j \in s..(e - 1) :
                 HasMerch(t[j + 1]) /\ \A i \in s..(j - 1) : ~HasMerch(t[i + 1])
        tok == t[j + 1]
    IN  IF j = e - 1 /\ tok.cmd # ""
           /\ (IF tok.colon THEN tok.suffix = <<>> ELSE AllSpaces(tok.suffix))
        THEN Some([command |-> tok.cmd, data |-> tok.data, hasColon |-> tok.colon])
        ELSE Null

\* /merch::([a-zA-Z0-9-]+):/ matches in the line [s, e)
HasCommand(t, s, e) == \E j \in s..(e - 1) : t[j + 1].k = "hdr" /\ t[j + 1].cmd # ""

\* String.prototype.substring: the bounds are swapped when start > end
substring(t, a, b) ==
    LET lo == IF a <= b THEN a ELSE b
        hi == IF a <= b THEN b ELSE a
    IN  SubSeq(t, lo + 1, hi)

CharAt(t, o) == IF o >= 0 /\ o < Len(t) THEN Some(t[o + 1]) ELSE Null
IsCharAt(t, o, c) == CharAt(t, o) # Null /\ IsCh(CharAt(t, o)[1], c)

\* "if (content[end - 1] === '\n') end--; if (content[end - 1] === '\r') end--;"
TrimEnd(t, end) ==
    LET e1 == IF IsCharAt(t, end - 1, LF) THEN end - 1 ELSE end
    IN  IF IsCharAt(t, e1 - 1, CR) THEN e1 - 1 ELSE e1

\* "if (content[contentStart] === '\r') contentStart++; if (... === '\n') contentStart++;"
SkipBreak(t, start) ==
    LET s1 == IF IsCharAt(t, start, CR) THEN start + 1 ELSE start
    IN  IF IsCharAt(t, s1, LF) THEN s1 + 1 ELSE s1

Range(s, e) == [start |-> s, endExclusive |-> e]

\* Map.prototype.set on a map kept as the sequence of its entries in
\* insertion order: an existing key keeps its place
MapHas(m, key) == \E i \in 1..Len(m) : m[i].key = key
MapGet(m, key) == m[CHOOSE i \in 1..Len(m) : m[i].key = key].val
MapSet(m, key, val) ==
    IF MapHas(m, key)
    THEN [i \in 1..Len(m) |-> IF m[i].key = key THEN [key |-> key, val |-> val] ELSE m[i]]
    ELSE Append(m, [key |-> key, val |-> val])
MapDelete(m, key) == SelectSeq(m, LAMBDA en : en.key # key)

\* assignContent(content, target)
assignContent(st, text, target) ==
    IF target.type = "updated"
    THEN IF MapHas(st.updatedFiles, target.idx)
         THEN [st EXCEPT !.updatedFiles =
                  MapSet(@, target.idx,
                         [MapGet(@, target.idx) EXCEPT !.content = Some(text)])]
         ELSE st
    ELSE IF target.arrayIndex < Len(st.newFiles)
         THEN [st EXCEPT !.newFiles[target.arrayIndex + 1].content = Some(text)]
         ELSE st

\* the pending content block is closed at offset `end`
ClosePending(st, t, end) ==
    IF st.pendingContent = Null THEN st
    ELSE [assignContent(st, substring(t, st.pendingContent[1].contentStart, TrimEnd(t, end)),
                        st.pendingContent[1].target)
            EXCEPT !.pendingContent = Null]

Diag(st, s, e, message, severity) ==
    [st EXCEPT !.diagnostics =
        Append(@, [range |-> Range(s, e), message |-> message, severity |-> severity])]

\* the body of the loop of parseMerchDoc for the header-like line [s, e)
ParseLine(st0, t, s, e) ==
    LET st == ClosePending(st0, t, s)
        parsed == tryParseMerchLine(t, s, e)
        command == parsed[1].command
        data == parsed[1].data
        pending(target) ==
            IF parsed[1].hasColon
            THEN Some([contentStart |-> SkipBreak(t, e), target |-> target])
            ELSE Null
    IN  IF parsed = Null
        THEN Diag(st, s, e,
                  IF HasCommand(t, s, e) THEN "Invalid JSON in header"
                  ELSE "Could not parse header", "error")
        ELSE IF command = "setup" THEN
            IF data.basePath # Null
            THEN [st EXCEPT !.basePath = data.basePath,
                            !.setupHeaderRange = Some(Range(s, e))]
            ELSE Diag(st, s, e, "Missing basePath in setup", "error")
        ELSE IF command = "existing-file" THEN
            IF data.idx # Null /\ data.path # Null /\ data.hash # Null
            THEN [st EXCEPT !.existingFiles =
                     Append(@, [path |-> data.path[1], idx |-> data.idx[1],
                                hash |-> data.hash[1],
                                headerOffsetRange |-> Range(s, e)])]
            ELSE Diag(st, s, e, "Invalid existing-file data", "error")
        ELSE IF command = "file" THEN
            IF data.path = Null
            THEN Diag(st, s, e, "Invalid file data: missing path", "error")
            ELSE IF data.idx # Null
            THEN [st EXCEPT
                    !.updatedFiles =
                        MapSet(@, data.idx[1],
                               [idx |-> data.idx[1], newPath |-> data.path[1],
                                content |-> Null,
                                headerOffsetRange |-> Range(s, e),
                                eol |-> data.eol]),
                    !.pendingContent =
                        pending([type |-> "updated", idx |-> data.idx[1]])]
            ELSE [st EXCEPT
                    !.newFiles =
                        Append(@, [newPath |-> data.path[1], content |-> Null,
                                   headerOffsetRange |-> Range(s, e),
                                   eol |-> data.eol]),
                    !.pendingContent =
                        pending([type |-> "new", arrayIndex |-> Len(st.newFiles)])]
        ELSE Diag(st, s, e, "Unknown command: " \o command, "error")

RECURSIVE Scan(_, _, _)
\* "while ((match = merchHeaderRegex.exec(content)) !== null)", line by line
\* from the line that starts at offset o
Scan(st, t, o) ==
    IF o > Len(t) THEN st
    ELSE CHOOSE r \in
             {Scan(next, t, e + 1) :
                 <<e, next>> \in
                     {<<e, IF HeaderLike(t, o, e) THEN ParseLine(st, t, o, e) ELSE st>> :
                         e \in {LineEnd(t, o)}}} : TRUE

RECURSIVE OrphanWarningsInverted(_, _, _)
\* variant: the test of the post-pass inverted
OrphanWarningsInverted(st, existingIdxSet, i) ==
    IF i > Len(st.updatedFiles) THEN st
    ELSE LET en == st.updatedFiles[i]
         IN  OrphanWarningsInverted(
                IF en.key \notin existingIdxSet THEN st
                ELSE [st EXCEPT !.diagnostics =
                        Append(@, [range |-> en.val.headerOffsetRange,
                                   message |-> "No existing-file found with idx",
                                   idx |-> en.key,
                                   severity |-> "warning"])],
                existingIdxSet, i + 1)

RECURSIVE OrphanWarnings(_, _, _)
\* "for (const [idx, fileInfo] of updatedFiles) if (!existingIdxSet.has(idx)) ..."
OrphanWarnings(st, existingIdxSet, i) ==
    IF i > Len(st.updatedFiles) THEN st
    ELSE LET en == st.updatedFiles[i]
         IN  OrphanWarnings(
                IF en.key \in existingIdxSet THEN st
                ELSE [st EXCEPT !.diagnostics =
                        Append(@, [range |-> en.val.headerOffsetRange,
                                   message |-> "No existing-file found with idx",
                                   idx |-> en.key,
                                   severity |-> "warning"])],
                existingIdxSet, i + 1)

EmptyDoc ==
    [existingFiles |-> <<>>, updatedFiles |-> <<>>, newFiles |-> <<>>,
     basePath |-> Null, setupHeaderRange |-> Null, diagnostics |-> <<>>,
     pendingContent |-> Null, thrown |-> FALSE]

\* a variant of the policy that throws whenever no basePath was found
basePathPolicyStrict(st) ==
    IF st.basePath = Null THEN [st EXCEPT !.thrown = TRUE] ELSE st

\* "if (!basePath)" at the end of parseMerchDoc; thrown = TRUE stands for
\* throw new Error("No base path found in merch document")
basePathPolicy(st) ==
    IF st.basePath = Null
    THEN IF Len(st.diagnostics) > 0
         THEN [st EXCEPT !.basePath = Some(".")]
         ELSE [st EXCEPT !.thrown = TRUE]
    ELSE st

\* parseMerchDoc(content)
parseMerchDoc(t) ==
    CHOOSE r \in
        {basePathPolicy(st) :
            st \in {OrphanWarnings(scanned,
                        {scanned.existingFiles[i].idx : i \in 1..Len(scanned.existingFiles)},
                        1) :
                       scanned \in {ClosePending(Scan(EmptyDoc, t, 0), t, Len(t))}}} : TRUE

----------------------------------------------------------------------------
(* Action Planner: buildActions *)

Write(path, text, source) ==
    [type |-> "write", path |-> path, content |-> text, source |-> source]
Rename(oldPath, newPath, source) ==
    [type |-> "rename", oldPath |-> oldPath, newPath |-> newPath, source |-> source]
Delete(path, source) == [type |-> "delete", path |-> path, source |-> source]

\* variant: only a folded record that also changes its path counts
isFoldedRenameMoved(d, e) ==
    /\ MapHas(d.updatedFiles, e.idx)
    /\ MapGet(d.updatedFiles, e.idx).content = Null
    /\ MapGet(d.updatedFiles, e.idx).newPath # e.path

\* "isFoldedRename = updatedFileInfo && updatedFileInfo.content === null"
isFoldedRename(d, e) ==
    MapHas(d.updatedFiles, e.idx) /\ MapGet(d.updatedFiles, e.idx).content = Null

needsHashCheck(d, e, check) == check /\ ~isFoldedRename(d, e)

\* the hash check of one existing-file record fails (HashMismatchError)
HashMismatch(d, f, e) ==
    LET oldPath == resolve(d.basePath[1], e.path)
    IN  IF exists(f, oldPath) /\ isFile(f, oldPath)
        THEN computeHash(readFile(f, oldPath)) # e.hash
        ELSE TRUE

\* the record whose check throws: the first one in the order of existingFiles
FirstMismatch(d, f, check) ==
    LET bad == {i \in 1..Len(d.existingFiles) :
                   needsHashCheck(d, d.existingFiles[i], check)
                   /\ HashMismatch(d, f, d.existingFiles[i])}
    IN  IF bad = {} THEN Null
        ELSE Some(d.existingFiles[CHOOSE i \in bad : \A j \in bad : i <= j].path)

\* "contentToWrite": the content normalized to the record's eol, if it has one
contentToWrite(info) ==
    IF info.eol # Null THEN normalizeLineEndings(info.content[1], info.eol[1])
    ELSE info.content[1]

\* variant: the write targets the new path
PlanExistingWriteNew(d, e, acc) ==
    LET oldPath == resolve(d.basePath[1], e.path)
    IN  IF MapHas(d.updatedFiles, e.idx)
        THEN LET u == MapGet(d.updatedFiles, e.idx)
                 newPath == resolve(d.basePath[1], u.newPath)
                 renames1 == IF oldPath # newPath
                             THEN MapSet(acc.renames, oldPath,
                                         [newPath |-> newPath,
                                          source |-> u.headerOffsetRange])
                             ELSE acc.renames
                 actions1 == IF u.content # Null
                                /\ e.hash # computeHash(contentToWrite(u))
                             THEN Append(acc.actions,
                                         Write(newPath, contentToWrite(u),
                                               u.headerOffsetRange))
                             ELSE acc.actions
             IN  [acc EXCEPT !.renames = renames1, !.actions = actions1]
        ELSE [acc EXCEPT !.actions = Append(@, Delete(oldPath, e.headerOffsetRange))]

\* variant: a record without updated record is left alone
PlanExistingKeep(d, e, acc) ==
    LET oldPath == resolve(d.basePath[1], e.path)
    IN  IF MapHas(d.updatedFiles, e.idx)
        THEN LET u == MapGet(d.updatedFiles, e.idx)
                 newPath == resolve(d.basePath[1], u.newPath)
                 renames1 == IF oldPath # newPath
                             THEN MapSet(acc.renames, oldPath,
                                         [newPath |-> newPath,
                                          source |-> u.headerOffsetRange])
                             ELSE acc.renames
                 actions1 == IF u.content # Null
                                /\ e.hash # computeHash(contentToWrite(u))
                             THEN Append(acc.actions,
                                         Write(oldPath, contentToWrite(u),
                                               u.headerOffsetRange))
                             ELSE acc.actions
             IN  [acc EXCEPT !.renames = renames1, !.actions = actions1]
        ELSE acc

\* the body of "for (const existingFileInfo of existingFiles)" after the check
PlanExisting(d, e, acc) ==
    LET oldPath == resolve(d.basePath[1], e.path)
    IN  IF MapHas(d.updatedFiles, e.idx)
        THEN LET u == MapGet(d.updatedFiles, e.idx)
                 newPath == resolve(d.basePath[1], u.newPath)
                 renames1 == IF oldPath # newPath
                             THEN MapSet(acc.renames, oldPath,
                                         [newPath |-> newPath,
                                          source |-> u.headerOffsetRange])
                             ELSE acc.renames
                 actions1 == IF u.content # Null
                                /\ e.hash # computeHash(contentToWrite(u))
                             THEN Append(acc.actions,
                                         Write(oldPath, contentToWrite(u),
                                               u.headerOffsetRange))
                             ELSE acc.actions
             IN  [acc EXCEPT !.renames = renames1, !.actions = actions1]
        ELSE [acc EXCEPT !.actions = Append(@, Delete(oldPath, e.headerOffsetRange))]

RECURSIVE PlanExistingFiles(_, _, _)
PlanExistingFiles(d, i, acc) ==
    IF i > Len(d.existingFiles) THEN acc
    ELSE PlanExistingFiles(d, i + 1, PlanExisting(d, d.existingFiles[i], acc))

\* "existingFiles.find(e => e.idx === idx)"
HasExisting(d, idx) == \E i \in 1..Len(d.existingFiles) : d.existingFiles[i].idx = idx

\* variant: the content is written as it stands in the document
NewFileWriteRaw(d, info) ==
    IF info.content # Null
    THEN <<Write(resolve(d.basePath[1], info.newPath), info.content[1],
                 info.headerOffsetRange)>>
    ELSE <<>>

\* a write for a record that has no existing file, none if it is folded
NewFileWrite(d, info) ==
    IF info.content # Null
    THEN <<Write(resolve(d.basePath[1], info.newPath), contentToWrite(info),
                 info.headerOffsetRange)>>
    ELSE <<>>

RECURSIVE PlanOrphans(_, _)
\* "for (const [idx, updatedFileInfo] of updatedFiles) if (!existing) ..."
PlanOrphans(d, i) ==
    IF i > Len(d.updatedFiles) THEN <<>>
    ELSE (IF HasExisting(d, d.updatedFiles[i].key) THEN <<>>
          ELSE NewFileWrite(d, d.updatedFiles[i].val))
         \o PlanOrphans(d, i + 1)

RECURSIVE PlanNewFiles(_, _)
\* "for (const newFileInfo of doc.newFiles) ..."
PlanNewFiles(d, i) ==
    IF i > Len(d.newFiles) THEN <<>>
    ELSE NewFileWrite(d, d.newFiles[i]) \o PlanNewFiles(d, i + 1)

\* variant: the suffix goes behind the extension
tempPathAfterExt(to) ==
    join(dirname(to), basename(to, extname(to)) \o extname(to) \o "_temp", "")

\* the temporary path that breaks a cycle: <dir>/<name>_temp<ext>
tempPath(to) ==
    join(dirname(to), basename(to, extname(to)) \o "_temp", extname(to))

RECURSIVE processRename(_, _)
\* variant: the rename is emitted before its target is vacated
processRenameEager(from, st) ==
    IF ~MapHas(st.renames, from) THEN st
    ELSE LET to == MapGet(st.renames, from).newPath
             source == MapGet(st.renames, from).source
         IN  IF from \in st.processed THEN [st EXCEPT !.fishy = TRUE]
             ELSE LET st1 == [st EXCEPT !.processed = @ \cup {from}]
                  IN  IF to \in st1.processed
                      THEN [st1 EXCEPT
                              !.renames = MapDelete(
                                  MapSet(@, tempPath(to),
                                         [newPath |-> to, source |-> source]), from),
                              !.actions = Append(@, Rename(from, tempPath(to), source))]
                      ELSE processRename(to,
                              [st1 EXCEPT
                                 !.renames = MapDelete(@, from),
                                 !.actions = Append(@, Rename(from, to, source))])

\* variant: every rename goes through the temporary path, cycle or not
processRenameViaTemp(from, st) ==
    IF ~MapHas(st.renames, from) THEN st
    ELSE LET to == MapGet(st.renames, from).newPath
             source == MapGet(st.renames, from).source
         IN  IF from \in st.processed THEN [st EXCEPT !.fishy = TRUE]
             ELSE [st EXCEPT
                     !.processed = @ \cup {from},
                     !.renames = MapDelete(
                         MapSet(@, tempPath(to),
                                [newPath |-> to, source |-> source]), from),
                     !.actions = Append(@, Rename(from, tempPath(to), source))]

\* variant: the target is put into the processed set before the walk enters it
processRenameMarked(from, st) ==
    IF ~MapHas(st.renames, from) THEN st
    ELSE LET to == MapGet(st.renames, from).newPath
             source == MapGet(st.renames, from).source
         IN  IF from \in st.processed THEN [st EXCEPT !.fishy = TRUE]
             ELSE LET st1 == [st EXCEPT !.processed = @ \cup {from}]
                  IN  IF to \in st1.processed
                      THEN [st1 EXCEPT
                              !.renames = MapDelete(
                                  MapSet(@, tempPath(to),
                                         [newPath |-> to, source |-> source]), from),
                              !.actions = Append(@, Rename(from, tempPath(to), source))]
                      ELSE LET st2 == processRename(to,
                                         [st1 EXCEPT !.processed = @ \cup {to}])
                           IN  IF st2.fishy THEN st2
                               ELSE [st2 EXCEPT
                                       !.renames = MapDelete(@, from),
                                       !.actions = Append(@, Rename(from, to, source))]

\* st = [renames, actions, processed, fishy]; fishy stands for
\* throw new Error("Something is fishy, ...")
processRename(from, st) ==
    IF ~MapHas(st.renames, from) THEN st
    ELSE LET to == MapGet(st.renames, from).newPath
             source == MapGet(st.renames, from).source
         IN  IF from \in st.processed THEN [st EXCEPT !.fishy = TRUE]
             ELSE LET st1 == [st EXCEPT !.processed = @ \cup {from}]
                  IN  IF to \in st1.processed
                      THEN [st1 EXCEPT
                              !.renames = MapDelete(
                                  MapSet(@, tempPath(to),
                                         [newPath |-> to, source |-> source]), from),
                              !.actions = Append(@, Rename(from, tempPath(to), source))]
                      ELSE LET st2 == processRename(to, st1)
                           IN  IF st2.fishy THEN st2
                               ELSE [st2 EXCEPT
                                       !.renames = MapDelete(@, from),
                                       !.actions = Append(@, Rename(from, to, source))]

RECURSIVE resolveRenames(_)
\* "while (renames.size > 0) { processRename(renames.keys().next().value, new Set()) }"
resolveRenames(st) ==
    IF st.renames = <<>> \/ st.fishy THEN st
    ELSE resolveRenames(processRename(st.renames[1].key, [st EXCEPT !.processed = {}]))

\* buildActions(doc, fs, checkHash): error = Some(filePath) stands for
\* throw new HashMismatchError(filePath)
buildActions(d, f, check) ==
    IF FirstMismatch(d, f, check) # Null
    THEN [error |-> FirstMismatch(d, f, check), fishy |-> FALSE, actions |-> <<>>]
    ELSE LET acc == PlanExistingFiles(d, 1, [actions |-> <<>>, renames |-> <<>>])
             st == resolveRenames(
                     [renames |-> acc.renames,
                      actions |-> acc.actions \o PlanOrphans(d, 1) \o PlanNewFiles(d, 1),
                      processed |-> {}, fishy |-> FALSE])
         IN  [error |-> Null, fishy |-> st.fishy, actions |-> st.actions]

----------------------------------------------------------------------------
(* Splitter: describeAction, runAction, and the state of one workflow      *)
(* merge -> edit -> split                                                  *)

NoError == [type |-> "none", filePath |-> Null]
HashMismatchError(filePath) == [type |-> "HashMismatchError", filePath |-> Some(filePath)]
NoBasePathError == [type |-> "No base path found in merch document", filePath |-> Null]
FishyError == [type |-> "Something is fishy", filePath |-> Null]
FileNotFound == [type |-> "File not found", filePath |-> Null]

describeAction(a) ==
    IF a.type = "write" THEN [text |-> "Update", path |-> a.path, to |-> Null]
    ELSE IF a.type = "rename"
         THEN [text |-> "Rename", path |-> a.oldPath, to |-> Some(a.newPath)]
    ELSE [text |-> "Delete", path |-> a.path, to |-> Null]

\* runAction throws: only MemoryFileSystem.rename of a missing file does
runActionThrows(a, f) == a.type = "rename" /\ ~exists(f, a.oldPath)

runAction(a, f) ==
    IF a.type = "write" THEN writeFile(f, a.path, a.content)
    ELSE IF a.type = "rename" THEN rename(f, a.oldPath, a.newPath)
    ELSE delete(f, a.path)

\* the files.set(resolvedNew, ...) of rename replaces an entry of another file
Overwrites(a, f) ==
    a.type = "rename" /\ exists(f, a.oldPath) /\ exists(f, a.newPath)
    /\ a.newPath # a.oldPath

----------------------------------------------------------------------------
(* Inputs *)

SeqsUpTo(S, n) == UNION {[1..k -> S] : k \in 0..n}

cA == <<Ch("a")>>
cB == <<Ch("b")>>
cT == <<Ch("t")>>

\* the filesystems of the planning specification: A and B, and maybe a file
\* at the path a swap of A and B uses as its temporary
PlanFileSystems ==
    {[p \in {PA, PB} |-> IF p = PA THEN cA ELSE cB],
     [p \in {PA, PB, PATemp} |-> IF p = PA THEN cA ELSE IF p = PB THEN cB ELSE cT]}

\* no foldFile / unfoldFile call, no analyzeMerchDoc call yet
NoFold == [op |-> "none"]
NoAnalysis == [called |-> FALSE]

InitWith(fileSystems, fileLists) ==
    /\ fs \in fileSystems
    /\ files \in fileLists
    /\ content = <<>>
    /\ pc = "start"
    /\ doc = EmptyDoc
    /\ actions = <<>>
    /\ done = 0
    /\ logs = <<>>
    /\ err = NoError
    /\ fs0 = fs
    /\ dryRun = FALSE
    /\ checkHash = TRUE
    /\ overwrote = FALSE
    /\ folded = NoFold
    /\ analysis = NoAnalysis

Init == InitWith(PlanFileSystems, {<<PA, PB>>})

----------------------------------------------------------------------------
(* Operations *)

\* mergeFiles(files, writer, formatter, baseDir, withoutContent, fs)
Merge ==
    /\ pc = "start"
    /\ \E withoutContent \in BOOLEAN :
          content' = mergeFiles(files, formatter, baseDir, withoutContent, fs)
    /\ pc' = "merged"
    /\ UNCHANGED <<fs, files, doc, actions, done, logs, err, fs0, dryRun, checkHash,
                   overwrote, folded, analysis>>

\* variant of splitContent: the hash checks interleaved with the execution,
\* the actions of the records before the failing one already run and logged
SplitInterleaved ==
    /\ pc \in {"merged", "edited", "stale"}
    /\ \E dry \in BOOLEAN, check \in BOOLEAN :
          \E d \in {parseMerchDoc(content)} : \E r \in {buildActions(d, fs, check)} :
              /\ dryRun' = dry
              /\ checkHash' = check
              /\ doc' = d
              /\ IF d.thrown
                 THEN /\ err' = NoBasePathError
                      /\ actions' = <<>>
                      /\ pc' = "failed"
                      /\ UNCHANGED fs
                      /\ logs' = <<>>
                 ELSE IF r.error # Null
                 THEN /\ err' = HashMismatchError(r.error[1])
                      /\ actions' = <<>>
                      /\ pc' = "failed"
                      /\ \E u \in {buildActions(d, fs, FALSE)} :
                            IF u.fishy \/ u.actions = <<>> \/ runActionThrows(u.actions[1], fs)
                            THEN UNCHANGED fs /\ logs' = <<>>
                            ELSE /\ fs' = (IF dry THEN fs ELSE runAction(u.actions[1], fs))
                                 /\ logs' = <<describeAction(u.actions[1])>>
                 ELSE IF r.fishy
                 THEN /\ err' = FishyError
                      /\ actions' = <<>>
                      /\ pc' = "failed"
                      /\ UNCHANGED fs
                      /\ logs' = <<>>
                 ELSE /\ err' = NoError
                      /\ actions' = r.actions
                      /\ pc' = IF r.actions = <<>> THEN "done" ELSE "running"
                      /\ UNCHANGED fs
                      /\ logs' = <<>>
    /\ fs0' = fs
    /\ done' = 0
    /\ overwrote' = FALSE
    /\ UNCHANGED <<files, content, folded, analysis>>

\* splitContent(content, dryRun, fs, logger, checkHash) up to its loop:
\* parseMerchDoc and buildActions
Split ==
    /\ pc \in {"merged", "edited", "stale"}
    /\ \E dry \in BOOLEAN, check \in BOOLEAN :
          \E d \in {parseMerchDoc(content)} : \E r \in {buildActions(d, fs, check)} :
              /\ dryRun' = dry
              /\ checkHash' = check
              /\ doc' = d
              /\ IF d.thrown
                 THEN /\ err' = NoBasePathError
                      /\ actions' = <<>>
                      /\ pc' = "failed"
                 ELSE IF r.error # Null
                 THEN /\ err' = HashMismatchError(r.error[1])
                      /\ actions' = <<>>
                      /\ pc' = "failed"
                 ELSE IF r.fishy
                 THEN /\ err' = FishyError
                      /\ actions' = <<>>
                      /\ pc' = "failed"
                 ELSE /\ err' = NoError
                      /\ actions' = r.actions
                      /\ pc' = IF r.actions = <<>> THEN "done" ELSE "running"
    /\ fs0' = fs
    /\ done' = 0
    /\ logs' = <<>>
    /\ overwrote' = FALSE
    /\ UNCHANGED <<fs, files, content, folded, analysis>>

\* variant of the iteration: a failing action restores the filesystem of the call
RunNextRollback ==
    /\ pc = "running"
    /\ LET action == actions[done + 1]
       IN  /\ logs' = Append(logs, describeAction(action))
           /\ IF ~dryRun /\ runActionThrows(action, fs)
              THEN /\ pc' = "failed"
                   /\ err' = FileNotFound
                   /\ fs' = fs0
                   /\ UNCHANGED <<done, overwrote>>
              ELSE /\ fs' = IF dryRun THEN fs ELSE runAction(action, fs)
                   /\ overwrote' = (overwrote \/ (~dryRun /\ Overwrites(action, fs)))
                   /\ done' = done + 1
                   /\ pc' = IF done + 1 = Len(actions) THEN "done" ELSE "running"
                   /\ err' = err
    /\ UNCHANGED <<files, content, doc, actions, fs0, dryRun, checkHash, folded, analysis>>

\* one iteration of "for (const action of actions)" in splitContent
RunNext ==
    /\ pc = "running"
    /\ LET action == actions[done + 1]
       IN  /\ logs' = Append(logs, describeAction(action))
           /\ IF ~dryRun /\ runActionThrows(action, fs)
              THEN /\ pc' = "failed"
                   /\ err' = FileNotFound
                   /\ UNCHANGED <<fs, done, overwrote>>
              ELSE /\ fs' = IF dryRun THEN fs ELSE runAction(action, fs)
                   /\ overwrote' = (overwrote \/ (~dryRun /\ Overwrites(action, fs)))
                   /\ done' = done + 1
                   /\ pc' = IF done + 1 = Len(actions) THEN "done" ELSE "running"
                   /\ err' = err
    /\ UNCHANGED <<files, content, doc, actions, fs0, dryRun, checkHash, folded, analysis>>

----------------------------------------------------------------------------
(* The user's edit of the document between merge and split, as the tests   *)
(* do it: file headers get another path or idx, lose their content (fold), *)
(* get other content, whole blocks are removed, new blocks are appended.   *)

FileHeaderOffsets(t) ==
    {o \in 0..(Len(t) - 1) : t[o + 1].k = "hdr" /\ t[o + 1].cmd = "file"}
BlockStart(t, i) ==
    CHOOSE o \in FileHeaderOffsets(t) :
        Cardinality({x \in FileHeaderOffsets(t) : x < o}) = i - 1
BlockEnd(t, i) ==
    IF i = Cardinality(FileHeaderOffsets(t)) THEN Len(t) ELSE BlockStart(t, i + 1)

\* the line break the document uses: the one that ends its first line
docLineBreak(t) == IF IsCh(t[2], CR) THEN <<Ch(CR), Ch(LF)>> ELSE <<Ch(LF)>>

\* the idx a hand edit gives a header so that it matches no existing-file
OrphanIdx == 99
editedBody == <<Ch("x")>>

DeleteBlock == [del |-> TRUE, path |-> Rel("A"), body |-> "same", orphan |-> FALSE]
Fates ==
    {DeleteBlock}
    \cup [del : {FALSE}, path : {Rel("A"), Rel("B"), Rel("C")},
          body : {"same", "fold", "edit"}, orphan : {FALSE}]
    \cup [del : {FALSE}, path : {Rel("C")}, body : {"same", "fold"}, orphan : {TRUE}]

\* a block appended by hand: a file header without idx
NewBlocks ==
    {[path |-> Rel("C"), content |-> Some(<<Ch("n")>>), eol |-> Null],
     [path |-> Rel("C"), content |-> Null, eol |-> Null],
     [path |-> Rel("A"), content |-> Some(<<Ch("n")>>), eol |-> Null],
     [path |-> Rel("C"), content |-> Some(<<Ch("n"), Ch(LF), Ch("n")>>),
      eol |-> Some(<<CR, LF>>)]}

EditBlock(t, i, fate) ==
    LET s == BlockStart(t, i)
        old == t[s + 1]
        hdr == [old EXCEPT !.data.path = Some(fate.path),
                           !.data.idx = IF fate.orphan THEN Some(OrphanIdx) ELSE @,
                           !.colon = IF fate.body = "same" THEN @ ELSE fate.body = "edit"]
    IN  IF fate.del THEN <<>>
        ELSE IF fate.body = "same" THEN <<hdr>> \o SubSeq(t, s + 2, BlockEnd(t, i))
        ELSE IF fate.body = "fold" THEN <<hdr>> \o docLineBreak(t)
        ELSE <<hdr>> \o docLineBreak(t) \o editedBody \o docLineBreak(t)

NewBlock(t, b) ==
    <<Hdr(formatter, "file", [NoData EXCEPT !.path = Some(b.path), !.eol = b.eol],
          b.content # Null)>>
    \o docLineBreak(t)
    \o (IF b.content = Null THEN <<>> ELSE b.content[1] \o docLineBreak(t))

RECURSIVE EditBlocks(_, _, _)
EditBlocks(t, fates, i) ==
    IF i > Len(fates) THEN <<>>
    ELSE EditBlock(t, i, fates[i]) \o EditBlocks(t, fates, i + 1)

RECURSIVE AppendBlocks(_, _, _)
AppendBlocks(t, new, i) ==
    IF i > Len(new) THEN <<>>
    ELSE NewBlock(t, new[i]) \o AppendBlocks(t, new, i + 1)

EditedText(t, fates, new) ==
    SubSeq(t, 1, BlockStart(t, 1)) \o EditBlocks(t, fates, 1) \o AppendBlocks(t, new, 1)

Edit ==
    /\ pc = "merged"
    /\ FileHeaderOffsets(content) # {}
    /\ \E fates \in [1..Cardinality(FileHeaderOffsets(content)) -> Fates],
          new \in SeqsUpTo(NewBlocks, MaxNew) :
          content' = EditedText(content, fates, new)
    /\ pc' = "edited"
    /\ UNCHANGED <<fs, files, doc, actions, done, logs, err, fs0, dryRun, checkHash,
                   overwrote, folded, analysis>>

\* the tracked file A changes on disk, or disappears, after the merge
DiskChange ==
    /\ pc \in {"merged", "edited"}
    /\ \/ fs' = writeFile(fs, PA, <<Ch("d")>>)
       \/ fs' = delete(fs, PA)
    /\ pc' = "stale"
    /\ UNCHANGED <<files, content, doc, actions, done, logs, err, fs0, dryRun,
                   checkHash, overwrote, folded, analysis>>

Next == Merge \/ Edit \/ DiskChange \/ Split \/ RunNext

Spec == Init /\ [][Next]_vars

----------------------------------------------------------------------------
(* The text specification: files of every content up to MaxLen characters  *)
(* are merged and the built document is split as it is.                    *)

\* a line of a file that reads like a file header of a merch document
headerLine ==
    Hdr(formatter, "file",
        [NoData EXCEPT !.path = Some(Rel("B")), !.idx = Some(0)], FALSE)

\* a line that ends in CR CR LF, as a CRLF conversion applied twice leaves it
crcrlf == <<Ch(CR), Ch(CR), Ch(LF)>>

TextContents ==
    SeqsUpTo({Ch("a"), Ch(CR), Ch(LF)}, MaxLen) \cup {<<headerLine>>, crcrlf}

TextFileSystems ==
    {[p \in {PA, PB} |-> IF p = PA THEN c1 ELSE c2] :
        c1 \in TextContents,
        c2 \in {cB, <<Ch("b"), Ch(CR), Ch(LF)>>, <<Ch("b"), Ch(LF)>>}}

\* PC is no file of TextFileSystems: mergeFiles skips it
TextFileLists == {<<PA>>, <<PA, PB>>, <<PB, PA>>, <<PC, PA>>, <<PA, PA>>}

InitText == InitWith(TextFileSystems, TextFileLists)

NextText == Merge \/ Split \/ RunNext

SpecText == InitText /\ [][NextText]_vars

----------------------------------------------------------------------------
(* Folding: foldFile, unfoldFile, findContentEnd.  The header line of a    *)
(* record is one token; its last ':' is the trailing colon when it has one *)
(* and the colon behind the command when it has none.                      *)

\* "doc.existingFiles.find(e => e.idx === file.idx)"
ExistingOf(d, idx) ==
    d.existingFiles[CHOOSE i \in 1..Len(d.existingFiles) :
                       /\ d.existingFiles[i].idx = idx
                       /\ \A j \in 1..(i - 1) : d.existingFiles[j].idx # idx]

\* the header starts of the updated and the new records behind the header of file
HeadersAfter(d, file) ==
    {o \in {d.updatedFiles[n].val.headerOffsetRange.start : n \in 1..Len(d.updatedFiles)}
            \cup {d.newFiles[n].headerOffsetRange.start : n \in 1..Len(d.newFiles)} :
        o > file.headerOffsetRange.start}

findContentEnd(t, file, d) ==
    IF HeadersAfter(d, file) = {} THEN TrimEnd(t, Len(t))
    ELSE TrimEnd(t, CHOOSE m \in HeadersAfter(d, file) :
                        \A o \in HeadersAfter(d, file) : m <= o)

\* content.substring(headerStart, colonOffsetInDoc): the header line up to its
\* last ':'
UpToLastColon(tok) ==
    IF tok.colon THEN [tok EXCEPT !.colon = FALSE, !.suffix = <<>>]
    ELSE [tok EXCEPT !.cmd = "", !.data = NoData, !.suffix = <<>>]

\* variant: the content stays, only the colon goes
foldFileKeepContent(t, file, f, base) ==
    IF file.content = Null
    THEN [newContent |-> t, hadModifiedContent |-> FALSE, threw |-> FALSE]
    ELSE [newContent |->
              [i \in 1..Len(t) |->
                  IF i = file.headerOffsetRange.start + 1 THEN UpToLastColon(t[i]) ELSE t[i]],
          hadModifiedContent |-> FALSE, threw |-> FALSE]

\* foldFile(content, file, fs, basePath); threw stands for the exception of
\* parseMerchDoc
foldFile(t, file, f, base) ==
    IF file.content = Null
    THEN [newContent |-> t, hadModifiedContent |-> FALSE, threw |-> FALSE]
    ELSE CHOOSE r \in
             {IF d.thrown
              THEN [newContent |-> t, hadModifiedContent |-> FALSE, threw |-> TRUE]
              ELSE [newContent |->
                        SubSeq(t, 1, file.headerOffsetRange.start)
                        \o <<UpToLastColon(t[file.headerOffsetRange.start + 1])>>
                        \o SubSeq(t, findContentEnd(t, file, d) + 1, Len(t)),
                    hadModifiedContent |->
                        /\ HasExisting(d, file.idx)
                        /\ computeHash(contentToWrite(file)) # ExistingOf(d, file.idx).hash,
                    threw |-> FALSE] :
                 d \in {parseMerchDoc(t)}} : TRUE

StartsWithBreak(t) ==
    \/ (Len(t) >= 1 /\ IsCh(t[1], LF))
    \/ (Len(t) >= 2 /\ IsCh(t[1], CR) /\ IsCh(t[2], LF))

\* unfoldFile behind its call of parseMerchDoc, d the parsed document
unfoldParsed(t, file, f, base, d) ==
    IF d.thrown \/ ~HasExisting(d, file.idx)
    THEN [newContent |-> t, threw |-> TRUE]
    ELSE LET filePath == resolve(base, ExistingOf(d, file.idx).path)
         IN  IF ~exists(f, filePath) THEN [newContent |-> t, threw |-> TRUE]
             ELSE LET fileContent == readFile(f, filePath)
                      merchLineEnding ==
                          IF detectLineEnding(t) # Null
                          THEN detectLineEnding(t)[1] ELSE <<LF>>
                      fileLineEnding == detectLineEnding(fileContent)
                      normalizedContent ==
                          IF fileLineEnding # Null
                             /\ fileLineEnding[1] # merchLineEnding
                          THEN normalizeLineEndings(fileContent, merchLineEnding)
                          ELSE fileContent
                      insertPosition == file.headerOffsetRange.endExclusive
                      remainingContent == SubSeq(t, insertPosition + 1, Len(t))
                  IN  [newContent |->
                           SubSeq(t, 1, insertPosition - 1)
                           \o <<[t[insertPosition] EXCEPT !.colon = TRUE]>>
                           \o LE(merchLineEnding) \o normalizedContent
                           \o (IF StartsWithBreak(remainingContent) THEN <<>>
                               ELSE LE(merchLineEnding))
                           \o remainingContent,
                       threw |-> FALSE]

\* unfoldFile(content, file, fs, basePath); threw stands for an exception:
\* of parseMerchDoc, "Cannot unfold: no existing-file found", or of readFile
unfoldFile(t, file, f, base) ==
    IF file.content # Null THEN [newContent |-> t, threw |-> FALSE]
    ELSE CHOOSE r \in {unfoldParsed(t, file, f, base, d) : d \in {parseMerchDoc(t)}} : TRUE

\* the editor command merch.foldFile on a record of the document
Fold ==
    /\ pc \in {"merged", "edited"}
    /\ \E d \in {parseMerchDoc(content)} :
          /\ ~d.thrown
          /\ \E n \in 1..Len(d.updatedFiles) :
                \E r \in {foldFile(content, d.updatedFiles[n].val, fs, d.basePath[1])} :
                    /\ content' = r.newContent
                    /\ folded' = [op |-> "fold", before |-> content,
                                  idx |-> d.updatedFiles[n].key,
                                  unfoldedBefore |-> d.updatedFiles[n].val.content # Null,
                                  hadModifiedContent |-> r.hadModifiedContent,
                                  threw |-> r.threw]
    /\ pc' = "folded"
    /\ UNCHANGED <<fs, files, doc, actions, done, logs, err, fs0, dryRun, checkHash,
                   overwrote, analysis>>

\* the editor command merch.unfoldFile on the record that was folded
Unfold ==
    /\ pc = "folded"
    /\ \E d \in {parseMerchDoc(content)} :
          /\ ~d.thrown
          /\ MapHas(d.updatedFiles, folded.idx)
          /\ \E r \in {unfoldFile(content, MapGet(d.updatedFiles, folded.idx), fs,
                                   d.basePath[1])} :
                /\ content' = r.newContent
                /\ folded' = [folded EXCEPT !.op = "unfold", !.threw = r.threw]
    /\ pc' = "unfolded"
    /\ UNCHANGED <<fs, files, doc, actions, done, logs, err, fs0, dryRun, checkHash,
                   overwrote, analysis>>

\* files with line breaks, and with a content that loses its last character
\* on the way through the document
FoldFileSystems ==
    {[p \in {PA, PB} |-> IF p = PA THEN cA ELSE cB],
     [p \in {PA, PB} |-> IF p = PA THEN <<Ch("a"), Ch(LF), Ch("a")>>
                         ELSE <<Ch("b"), Ch(CR), Ch(LF)>>],
     [p \in {PA, PB} |-> IF p = PA THEN <<Ch("a"), Ch(CR)>> ELSE <<>>]}

InitFold == InitWith(FoldFileSystems, {<<PA, PB>>})

NextFold == Merge \/ Edit \/ Fold \/ Unfold

SpecFold == InitFold /\ [][NextFold]_vars

----------------------------------------------------------------------------
(* Vocabulary of the properties *)

\* buildActions of the running call has returned its plan
Planned == pc \in {"running", "done"} \/ (pc = "failed" /\ err = FileNotFound)
\* the call has run its whole plan against the filesystem
Executed == pc = "done" /\ ~dryRun

NExisting == Len(doc.existingFiles)
Existing(i) == doc.existingFiles[i]
OldPath(i) == resolve(doc.basePath[1], Existing(i).path)
HasUpdated(i) == MapHas(doc.updatedFiles, Existing(i).idx)
Updated(i) == MapGet(doc.updatedFiles, Existing(i).idx)
NewPath(i) == resolve(doc.basePath[1], Updated(i).newPath)

IsType(a, type) == a.type = type
RenameActions == SelectSeq(actions, LAMBDA a : a.type = "rename")
WriteActions == SelectSeq(actions, LAMBDA a : a.type = "write")
DeleteActions == SelectSeq(actions, LAMBDA a : a.type = "delete")
RenamePairs == [i \in 1..Len(RenameActions) |->
                   <<RenameActions[i].oldPath, RenameActions[i].newPath>>]
\* the positions of the plan that hold the rename old -> new
RenameAt(old, new) ==
    {i \in 1..Len(actions) :
        actions[i].type = "rename" /\ actions[i].oldPath = old /\ actions[i].newPath = new}

\* the document is exactly: two tracked files, each with an updated record,
\* nothing else
TwoTracked ==
    /\ NExisting = 2 /\ OldPath(1) # OldPath(2)
    /\ Existing(1).idx # Existing(2).idx
    /\ Len(doc.updatedFiles) = 2 /\ HasUpdated(1) /\ HasUpdated(2)
    /\ doc.newFiles = <<>>

----------------------------------------------------------------------------
(* C1: a swap of two tracked files A (listed first) and B is planned as    *)
(* exactly the three renames B -> A_temp, A -> B, A_temp -> A, in this     *)
(* order; run in this order they leave A with B's content, B with A's      *)
(* content and no other file behind.                                       *)

\* A_temp: <dir>/<basename of A>_temp<ext>
tempPathOfA == [OldPath(1) EXCEPT !.name = @ \o "_temp"]

IsSwap == TwoTracked /\ NewPath(1) = OldPath(2) /\ NewPath(2) = OldPath(1)

C1_SwapThreeRenames ==
    /\ (Planned /\ IsSwap) =>
          RenamePairs = << <<OldPath(2), tempPathOfA>>,
                           <<OldPath(1), OldPath(2)>>,
                           <<tempPathOfA, OldPath(1)>> >>
    /\ (Executed /\ IsSwap /\ WriteActions = <<>>) =>
          /\ fs[OldPath(1)] = fs0[OldPath(2)]
          /\ fs[OldPath(2)] = fs0[OldPath(1)]
          /\ DOMAIN fs = DOMAIN fs0 \ {tempPathOfA}

C1_Witness ==
    /\ Executed /\ IsSwap /\ Len(actions) = 3
    /\ fs0[PA] = cA /\ fs0[PB] = cB
    /\ fs[PA] = cB /\ fs[PB] = cA

----------------------------------------------------------------------------
(* C2: a chain A -> B, B -> C is planned with the rename B -> C before the *)
(* rename A -> B; after the run there is no file at A, B holds A's content *)
(* and C holds B's.                                                        *)

IsChain ==
    /\ TwoTracked /\ NewPath(1) = OldPath(2)
    /\ NewPath(2) \notin {OldPath(1), OldPath(2)}

C2_ChainOrder ==
    /\ (Planned /\ IsChain) =>
          /\ RenameAt(OldPath(2), NewPath(2)) # {}
          /\ RenameAt(OldPath(1), OldPath(2)) # {}
          /\ \A i \in RenameAt(OldPath(2), NewPath(2)) :
                \A j \in RenameAt(OldPath(1), OldPath(2)) : i < j
    /\ (Executed /\ IsChain /\ WriteActions = <<>>) =>
          /\ OldPath(1) \notin DOMAIN fs
          /\ fs[OldPath(2)] = fs0[OldPath(1)]
          /\ fs[NewPath(2)] = fs0[OldPath(2)]

C2_Witness ==
    /\ Executed /\ IsChain /\ Len(actions) = 2
    /\ OldPath(1) = PA /\ OldPath(2) = PB /\ NewPath(2) = PC
    /\ PA \notin DOMAIN fs /\ fs[PB] = cA /\ fs[PC] = cB

----------------------------------------------------------------------------
(* C3: when the targets of the pending renames are pairwise distinct and   *)
(* each is absent from disk or the source of a pending rename, the renames *)
(* run in list order never replace a file and every renamed file's content *)
(* ends at its new path.  Stated for plans that hold nothing but renames.  *)

Renamed == {i \in 1..NExisting : HasUpdated(i) /\ NewPath(i) # OldPath(i)}

RenameTargetsFree ==
    /\ \A i \in Renamed : \A j \in Renamed :
          (NewPath(i) = NewPath(j)) => (Existing(i).idx = Existing(j).idx)
    /\ \A i \in Renamed :
          \/ NewPath(i) \notin DOMAIN fs0
          \/ \E j \in Renamed : OldPath(j) = NewPath(i)

C3_RenamesLossFree ==
    (Executed /\ Renamed # {} /\ RenameTargetsFree /\ actions = RenameActions) =>
        /\ ~overwrote
        /\ \A i \in Renamed :
              NewPath(i) \in DOMAIN fs /\ fs[NewPath(i)] = fs0[OldPath(i)]

----------------------------------------------------------------------------
(* C4: the document mergeFiles builds from the filesystem, split unedited  *)
(* against the same filesystem, yields no action.  Stated for files none   *)
(* of whose lines reads like a merch header.                               *)

Unedited ==
    /\ pc \in {"running", "done", "failed"}
    /\ \E withoutContent \in BOOLEAN :
          content = mergeFiles(files, formatter, baseDir, withoutContent, fs0)

NoHeaderInFiles ==
    \A p \in DOMAIN fs0 : \A i \in 1..Len(fs0[p]) : fs0[p][i].k = "ch"

C4_IdempotentSplit ==
    (Unedited /\ NoHeaderInFiles) => (err = NoError /\ actions = <<>>)

----------------------------------------------------------------------------
(* C5: parseMerchDoc(mergeFiles(files)) returns one existing-file record   *)
(* per included input, in list order, with idx = position in the list,     *)
(* hash = hash of the file's content, and an updated record under the same *)
(* idx with the same relative path.                                        *)

IncludedPositions == {i \in 0..(Len(files) - 1) : Included(fs, files[i + 1])}
\* the k-th included position of the file list
IncludedAt(k) ==
    CHOOSE i \in IncludedPositions :
        Cardinality({j \in IncludedPositions : j < i}) = k - 1

RoundTrip(d) ==
    /\ ~d.thrown
    /\ Len(d.existingFiles) = Cardinality(IncludedPositions)
    /\ \A k \in 1..Len(d.existingFiles) :
          LET e == d.existingFiles[k]
              p == files[IncludedAt(k) + 1]
          IN  /\ e.idx = IncludedAt(k)
              /\ e.path = relative(baseDir, p)
              /\ e.hash = computeHash(fs[p])
              /\ MapHas(d.updatedFiles, e.idx)
              /\ MapGet(d.updatedFiles, e.idx).newPath = e.path

C5_BuildParseRoundTrip == (pc = "merged") => RoundTrip(parseMerchDoc(content))

----------------------------------------------------------------------------
(* Vocabulary of the hash check *)

\* splitContent has parsed the document (parseMerchDoc did not throw)
Parsed == pc \in {"running", "done", "failed"} /\ ~doc.thrown
Folded(i) == HasUpdated(i) /\ Updated(i).content = Null
\* the file of record i was missing or changed when splitContent was called
Stale(i) == HashMismatch(doc, fs0, Existing(i))
HashError == err.type = "HashMismatchError"

----------------------------------------------------------------------------
(* C6: if the file of a tracked record is changed on disk or missing,      *)
(* splitContent with checkHash = true fails with HashMismatchError naming  *)
(* the record's path; with checkHash = false it succeeds and the file ends *)
(* up with the document's content.  Stated for records whose updated       *)
(* record carries content.                                                 *)

\* every action of the plan that names the old or the new path of record i
\* stems from the record's own file header
OwnOnly(i) ==
    \A k \in 1..Len(actions) :
        (\/ (actions[k].type = "rename"
             /\ {actions[k].oldPath, actions[k].newPath} \cap {OldPath(i), NewPath(i)} # {})
         \/ (actions[k].type # "rename" /\ actions[k].path \in {OldPath(i), NewPath(i)}))
            => actions[k].source = Updated(i).headerOffsetRange

C6_HashMismatchGate ==
    \A i \in 1..NExisting :
        (Parsed /\ HasUpdated(i) /\ ~Folded(i) /\ Stale(i)) =>
            IF checkHash
            THEN pc = "failed" /\ err = HashMismatchError(Existing(i).path)
            ELSE /\ ~HashError
                 /\ (Executed /\ OwnOnly(i)) =>
                       /\ NewPath(i) \in DOMAIN fs
                       /\ fs[NewPath(i)] = contentToWrite(Updated(i))

----------------------------------------------------------------------------
(* C7 as claimed: with checkHash = true only the folded renames (content   *)
(* null and another path) are exempt from the check; a folded record that  *)
(* keeps its path raises HashMismatchError when its file is stale.         *)

C7_OnlyFoldedRenamesExempt ==
    \A i \in 1..NExisting :
        (Parsed /\ checkHash /\ Stale(i)
         /\ ~(Folded(i) /\ NewPath(i) # OldPath(i))) =>
            (pc = "failed" /\ HashError)

(* C7 as amended: with checkHash = true the check is skipped for exactly   *)
(* the folded records (content null), whatever their path: the call fails  *)
(* with HashMismatchError, naming the first of them, if and only if some   *)
(* deleted or unfolded record is stale.  A folded rename of a file changed *)
(* on disk is planned as a rename without a write, and run alone it moves  *)
(* the changed file.                                                       *)

Checked == {i \in 1..NExisting : ~Folded(i) /\ Stale(i)}

C7_FoldedRecordsExempt ==
    (Parsed /\ checkHash) =>
        /\ (Checked = {}) => ~HashError
        /\ (Checked # {}) =>
              /\ pc = "failed"
              /\ err = HashMismatchError(
                           Existing(CHOOSE i \in Checked : \A j \in Checked : i <= j).path)
        /\ \A i \in 1..NExisting :
              (Planned /\ Folded(i) /\ NewPath(i) # OldPath(i) /\ Stale(i)) =>
                  /\ \E k \in 1..Len(actions) :
                        /\ actions[k].type = "rename"
                        /\ actions[k].oldPath = OldPath(i)
                        /\ actions[k].newPath \in {NewPath(i), tempPath(NewPath(i))}
                  /\ \A k \in 1..Len(actions) :
                        actions[k].type = "write" =>
                            actions[k].source # Updated(i).headerOffsetRange
                  /\ (Executed /\ Len(actions) = 1) =>
                        /\ fs[NewPath(i)] = fs0[OldPath(i)]
                        /\ OldPath(i) \notin DOMAIN fs

C7_Witness ==
    /\ Executed /\ checkHash
    /\ \E i \in 1..NExisting :
          /\ Folded(i) /\ NewPath(i) # OldPath(i) /\ Stale(i)
          /\ OldPath(i) \in DOMAIN fs0
          /\ fs[NewPath(i)] = <<Ch("d")>>
    /\ \E j \in 1..NExisting : Folded(j) /\ NewPath(j) = OldPath(j)

----------------------------------------------------------------------------
(* C8 as claimed: for a record with another path and changed content the   *)
(* plan holds a write to the old path before the rename old -> new, and    *)
(* after the run the new path holds the edited content and the old path    *)
(* does not exist.                                                         *)

EditedRename(i) ==
    /\ HasUpdated(i) /\ NewPath(i) # OldPath(i) /\ Updated(i).content # Null
    /\ computeHash(contentToWrite(Updated(i))) # Existing(i).hash

WritesOld(i) ==
    {k \in 1..Len(actions) :
        actions[k] = Write(OldPath(i), contentToWrite(Updated(i)),
                           Updated(i).headerOffsetRange)}
RenamesFrom(old) ==
    {k \in 1..Len(actions) : actions[k].type = "rename" /\ actions[k].oldPath = old}

C8_WriteThenRenameOldToNew ==
    \A i \in 1..NExisting :
        EditedRename(i) =>
            /\ Planned =>
                  \E w \in WritesOld(i) :
                      \E r \in RenameAt(OldPath(i), NewPath(i)) : w < r
            /\ Executed =>
                  /\ NewPath(i) \in DOMAIN fs
                  /\ fs[NewPath(i)] = contentToWrite(Updated(i))
                  /\ OldPath(i) \notin DOMAIN fs

(* C8 as amended: the plan holds a write of the edited content to the old  *)
(* path, and it precedes the rename whose source is the old path (old ->   *)
(* new, or old -> a temporary path in a cycle); if no other action of the  *)
(* plan names the old or the new path, after the run the new path holds    *)
(* the edited content and the old path does not exist.                     *)

Names(a, p) ==
    IF a.type = "rename" THEN p \in {a.oldPath, a.newPath} ELSE a.path = p

\* the plan names the old and the new path of record i in the record's own
\* write and rename only
Alone(i) ==
    \A k \in 1..Len(actions) :
        (Names(actions[k], OldPath(i)) \/ Names(actions[k], NewPath(i))) =>
            \/ k \in WritesOld(i)
            \/ actions[k] = Rename(OldPath(i), NewPath(i), Updated(i).headerOffsetRange)

C8_WriteBeforeRename ==
    \A i \in 1..NExisting :
        EditedRename(i) =>
            /\ Planned =>
                  /\ RenamesFrom(OldPath(i)) # {}
                  /\ \E w \in WritesOld(i) : \A r \in RenamesFrom(OldPath(i)) : w < r
            /\ (Executed /\ Alone(i)) =>
                  /\ NewPath(i) \in DOMAIN fs
                  /\ fs[NewPath(i)] = contentToWrite(Updated(i))
                  /\ OldPath(i) \notin DOMAIN fs

C8_Witness ==
    /\ Executed
    /\ \E i \in 1..NExisting :
          /\ EditedRename(i) /\ Alone(i)
          /\ OldPath(i) \in DOMAIN fs0 /\ OldPath(i) \notin DOMAIN fs
          /\ fs[NewPath(i)] = editedBody

----------------------------------------------------------------------------
(* C9 as claimed: every record without updated record gets exactly one     *)
(* delete action, for its old path, a record with updated record gets      *)
(* none; after the run the deleted path is absent and the tracked files    *)
(* the plan does not name are untouched.                                   *)

DeletesOf(i) ==
    {k \in 1..Len(actions) :
        actions[k].type = "delete" /\ actions[k].source = Existing(i).headerOffsetRange}
Named(p) == \E k \in 1..Len(actions) : Names(actions[k], p)
Same(p) ==
    IF p \in DOMAIN fs0 THEN p \in DOMAIN fs /\ fs[p] = fs0[p] ELSE p \notin DOMAIN fs

DeletePlanned ==
    Planned =>
        /\ \A i \in 1..NExisting :
              IF HasUpdated(i) THEN DeletesOf(i) = {}
              ELSE /\ Cardinality(DeletesOf(i)) = 1
                   /\ \A k \in DeletesOf(i) : actions[k].path = OldPath(i)
        /\ \A k \in 1..Len(actions) :
              actions[k].type = "delete" => \E i \in 1..NExisting : k \in DeletesOf(i)

C9_DeletedPathAbsent ==
    /\ DeletePlanned
    /\ Executed =>
          \A i \in 1..NExisting :
              /\ ~HasUpdated(i) => OldPath(i) \notin DOMAIN fs
              /\ ~Named(OldPath(i)) => Same(OldPath(i))

(* C9 as amended: ... after the run the deleted path is absent unless the  *)
(* plan also writes that path or renames a file onto it, and the tracked   *)
(* files the plan does not name are untouched.                             *)

Recreated(p) ==
    \E k \in 1..Len(actions) :
        \/ actions[k].type = "write" /\ actions[k].path = p
        \/ actions[k].type = "rename" /\ actions[k].newPath = p

C9_DeleteOnePerRecord ==
    /\ DeletePlanned
    /\ Executed =>
          \A i \in 1..NExisting :
              /\ (~HasUpdated(i) /\ ~Recreated(OldPath(i))) => OldPath(i) \notin DOMAIN fs
              /\ ~Named(OldPath(i)) => Same(OldPath(i))

C9_Witness ==
    /\ Executed /\ NExisting = 2
    /\ ~HasUpdated(1) /\ HasUpdated(2)
    /\ OldPath(1) \in DOMAIN fs0 /\ OldPath(1) \notin DOMAIN fs
    /\ ~Named(OldPath(2)) /\ fs[OldPath(2)] = cB
    /\ Len(DeleteActions) = 1

----------------------------------------------------------------------------
(* C10: every record without existing file (a newFiles entry, or an        *)
(* updated record whose idx matches no existing-file record) gets exactly  *)
(* one action, a write at its resolved path of its content normalized to   *)
(* its own eol, when its content is not null, and no action when it is.    *)

NewRecords ==
    {doc.newFiles[n] : n \in 1..Len(doc.newFiles)}
    \cup {doc.updatedFiles[n].val : n \in
            {m \in 1..Len(doc.updatedFiles) : ~HasExisting(doc, doc.updatedFiles[m].key)}}

ActionsOf(rec) == {k \in 1..Len(actions) : actions[k].source = rec.headerOffsetRange}

C10_NewFileWrites ==
    Planned =>
        \A rec \in NewRecords :
            IF rec.content = Null THEN ActionsOf(rec) = {}
            ELSE /\ Cardinality(ActionsOf(rec)) = 1
                 /\ \A k \in ActionsOf(rec) :
                       /\ actions[k].type = "write"
                       /\ actions[k].path = resolve(doc.basePath[1], rec.newPath)
                       /\ actions[k].content =
                             IF rec.eol = Null THEN rec.content[1]
                             ELSE normalizeLineEndings(rec.content[1], rec.eol[1])

C10_Witness ==
    /\ Executed
    /\ Len(doc.newFiles) = 1 /\ doc.newFiles[1].eol = Some(<<CR, LF>>)
    /\ doc.newFiles[1].content = Some(<<Ch("n"), Ch(LF), Ch("n")>>)
    /\ fs[PC] = <<Ch("n"), Ch(CR), Ch(LF), Ch("n")>>
    /\ \E n \in 1..Len(doc.updatedFiles) :
          /\ doc.updatedFiles[n].key = OrphanIdx
          /\ doc.updatedFiles[n].val.content = Null

----------------------------------------------------------------------------
(* C11: a file whose detected line ending differs from the dominant ending *)
(* of the document gets an eol field, its body is stored in the dominant   *)
(* ending, and what the split writes for a record with an eol field uses   *)
(* that ending on every line.                                              *)

\* every line break of the text is the line ending le
UsesEnding(text, le) ==
    IF le = <<LF>> THEN ~HasCRLF(text)
    ELSE \A i \in 1..Len(text) :
            IsCh(text[i], LF) => (i > 1 /\ IsCh(text[i - 1], CR))

\* the file header the built document holds for position i of the file list
BuiltHeader(i) ==
    content[1 + CHOOSE o \in FileHeaderOffsets(content) : content[o + 1].data.idx = Some(i)]

C11_LineEndingFidelity ==
    /\ (pc = "merged" /\ NoHeaderInFiles) =>
          \A i \in IncludedPositions :
              LET le == mainLineEnding(files, fs)
                  own == detectLineEnding(fs[files[i + 1]])
              IN  IF own # Null /\ own[1] # le
                  THEN /\ BuiltHeader(i).data.eol = own
                       /\ BuiltHeader(i).colon =>
                             UsesEnding(normalizeLineEndings(fs[files[i + 1]], le), le)
                  ELSE BuiltHeader(i).data.eol = Null
    /\ Planned =>
          \A k \in 1..Len(actions) : \A n \in 1..Len(doc.updatedFiles) :
              LET u == doc.updatedFiles[n].val
              IN  (actions[k].type = "write" /\ actions[k].source = u.headerOffsetRange
                   /\ u.eol # Null)
                      => UsesEnding(actions[k].content, u.eol[1])

----------------------------------------------------------------------------
(* C12: for an unfolded updated record for which foldFile reports          *)
(* hadModifiedContent = false, and with the disk unchanged, unfoldFile     *)
(* applied to the folded document (the record parsed again) returns the    *)
(* document as it was before the fold.                                     *)

C12_FoldUnfoldInverse ==
    (pc = "unfolded" /\ folded.unfoldedBefore /\ ~folded.hadModifiedContent) =>
        (~folded.threw /\ content = folded.before)

----------------------------------------------------------------------------
(* C13: foldFile on an unfolded record whose content, normalized to its    *)
(* eol, does not hash to the stored hash of the existing record of its idx *)
(* reports hadModifiedContent = true and returns a document in which the   *)
(* record's header has no colon and parses with content = null while every *)
(* other record parses with the path and content it had; foldFile on a     *)
(* folded record returns the text unchanged and hadModifiedContent =       *)
(* false.                                                                  *)

\* the records of b other than the updated record idx are records of a with
\* the same path and content
OthersKept(b, a, idx) ==
    /\ Len(a.updatedFiles) = Len(b.updatedFiles)
    /\ \A n \in 1..Len(b.updatedFiles) :
          /\ a.updatedFiles[n].key = b.updatedFiles[n].key
          /\ a.updatedFiles[n].val.newPath = b.updatedFiles[n].val.newPath
          /\ (b.updatedFiles[n].key # idx) =>
                a.updatedFiles[n].val.content = b.updatedFiles[n].val.content
    /\ Len(a.newFiles) = Len(b.newFiles)
    /\ \A n \in 1..Len(b.newFiles) :
          /\ a.newFiles[n].newPath = b.newFiles[n].newPath
          /\ a.newFiles[n].content = b.newFiles[n].content

\* the record the fold was applied to holds an edit
FoldedAnEdit(b) ==
    /\ folded.unfoldedBefore
    /\ HasExisting(b, folded.idx)
    /\ computeHash(contentToWrite(MapGet(b.updatedFiles, folded.idx)))
          # ExistingOf(b, folded.idx).hash

C13_FoldDiscardsEdit ==
    (pc = "folded") =>
        \A b \in {parseMerchDoc(folded.before)} : \A a \in {parseMerchDoc(content)} :
            /\ FoldedAnEdit(b) =>
                  /\ folded.hadModifiedContent /\ ~folded.threw
                  /\ ~content[MapGet(b.updatedFiles, folded.idx).headerOffsetRange.start + 1].colon
                  /\ ~a.thrown
                  /\ MapHas(a.updatedFiles, folded.idx)
                  /\ MapGet(a.updatedFiles, folded.idx).content = Null
                  /\ OthersKept(b, a, folded.idx)
            /\ ~folded.unfoldedBefore =>
                  (content = folded.before /\ ~folded.hadModifiedContent)

C13_Witness ==
    /\ pc = "folded" /\ folded.hadModifiedContent
    /\ FoldedAnEdit(parseMerchDoc(folded.before))
    /\ Len(parseMerchDoc(content).updatedFiles) = 2
    /\ \E n \in 1..2 :
          /\ parseMerchDoc(content).updatedFiles[n].key # folded.idx
          /\ parseMerchDoc(content).updatedFiles[n].val.content = Some(editedBody)
    /\ Len(parseMerchDoc(content).newFiles) = 1
    /\ parseMerchDoc(content).newFiles[1].content # Null

----------------------------------------------------------------------------
(* The parsing specification: header lines of the built document are       *)
(* damaged or removed by hand, the setup line among them, and the document *)
(* is parsed.                                                              *)

HeaderOffsets(t) == {o \in 0..(Len(t) - 1) : t[o + 1].k = "hdr"}
SetupOffsets(t) == {o \in HeaderOffsets(t) : t[o + 1].cmd = "setup"}

\* what a hand edit leaves of a header line: the line as it is, no line,
\* text after the JSON, JSON without the fields, another command, no command
HeaderFates == {"keep", "remove", "junk", "nodata", "unknown", "nocmd"}

DamageToken(tok, fate) ==
    IF fate = "junk" THEN [tok EXCEPT !.suffix = <<"x">>]
    ELSE IF fate = "nodata" THEN [tok EXCEPT !.data = NoData]
    ELSE IF fate = "unknown" THEN [tok EXCEPT !.cmd = "foo"]
    ELSE IF fate = "nocmd" THEN [tok EXCEPT !.cmd = ""]
    ELSE tok

DamageAt(t, o, fate) ==
    IF fate = "remove"
    THEN SubSeq(t, 1, o) \o SubSeq(t, SkipBreak(t, o + 1) + 1, Len(t))
    ELSE [t EXCEPT ![o + 1] = DamageToken(@, fate)]

Damage ==
    /\ pc = "merged"
    /\ \E so \in SetupOffsets(content), oo \in HeaderOffsets(content) \ SetupOffsets(content),
          sfate \in HeaderFates, ofate \in HeaderFates :
          content' = DamageAt(DamageAt(content, oo, ofate), so, sfate)
    /\ pc' = "damaged"
    /\ UNCHANGED <<fs, files, doc, actions, done, logs, err, fs0, dryRun, checkHash,
                   overwrote, folded, analysis>>

\* parseMerchDoc(content) as the editor calls it on every change of the text
Parse ==
    /\ pc \in {"merged", "damaged"}
    /\ \E d \in {parseMerchDoc(content)} :
          /\ doc' = d
          /\ err' = IF d.thrown THEN NoBasePathError ELSE NoError
    /\ pc' = "parsed"
    /\ UNCHANGED <<fs, files, content, actions, done, logs, fs0, dryRun, checkHash,
                   overwrote, folded, analysis>>

NextParse == Merge \/ Damage \/ Parse

SpecParse == InitFold /\ [][NextParse]_vars

----------------------------------------------------------------------------
(* C14: parseMerchDoc throws if and only if no setup header with a         *)
(* basePath was found and the diagnostics list is empty; when no basePath  *)
(* was found and there is a diagnostic, it returns the partial result with *)
(* basePath "."; a malformed header appears as a diagnostic and as nothing *)
(* else.                                                                   *)

\* the header line at offset o parses as a command with its data
WellFormed(t, o) ==
    /\ HasMerch(t[o + 1]) /\ t[o + 1].cmd # ""
    /\ IF t[o + 1].colon THEN t[o + 1].suffix = <<>> ELSE AllSpaces(t[o + 1].suffix)

SetupFound(t) ==
    \E o \in SetupOffsets(t) : WellFormed(t, o) /\ t[o + 1].data.basePath # Null

Malformed(t, o) ==
    \/ ~WellFormed(t, o)
    \/ t[o + 1].cmd \notin {"setup", "existing-file", "file"}
    \/ t[o + 1].cmd = "setup" /\ t[o + 1].data.basePath = Null
    \/ t[o + 1].cmd = "file" /\ t[o + 1].data.path = Null
    \/ /\ t[o + 1].cmd = "existing-file"
       /\ (t[o + 1].data.path = Null \/ t[o + 1].data.idx = Null \/ t[o + 1].data.hash = Null)

RecordStarts(d) ==
    {d.existingFiles[i].headerOffsetRange.start : i \in 1..Len(d.existingFiles)}
    \cup {d.updatedFiles[i].val.headerOffsetRange.start : i \in 1..Len(d.updatedFiles)}
    \cup {d.newFiles[i].headerOffsetRange.start : i \in 1..Len(d.newFiles)}
    \cup {d.setupHeaderRange[i].start : i \in 1..Len(d.setupHeaderRange)}

ErrorStarts(d) ==
    {d.diagnostics[i].range.start :
        i \in {j \in 1..Len(d.diagnostics) : d.diagnostics[j].severity = "error"}}

C14_MissingBasePathPolicy ==
    (pc = "parsed") =>
        /\ doc.thrown <=> (~SetupFound(content) /\ doc.diagnostics = <<>>)
        /\ (err = NoBasePathError) <=> doc.thrown
        /\ (~SetupFound(content) /\ doc.diagnostics # <<>>) => doc.basePath = Some(".")
        /\ SetupFound(content) => doc.basePath = Some(baseDir)
        /\ \A o \in HeaderOffsets(content) :
              /\ Malformed(content, o) => (o \in ErrorStarts(doc) /\ o \notin RecordStarts(doc))
              /\ ~Malformed(content, o) => (doc.thrown \/ o \in RecordStarts(doc))

C14_Witness ==
    /\ pc = "parsed" /\ ~doc.thrown
    /\ ~SetupFound(content)
    /\ doc.basePath = Some(".")
    /\ Len(doc.diagnostics) = 1
    /\ Len(doc.updatedFiles) = 2

----------------------------------------------------------------------------
(* Analyzer: analyzeMerchDoc                                               *)

\* a FileStatus; arg holds the path the message names
Status(range, message, arg, type) ==
    [range |-> range, message |-> message, arg |-> arg, type |-> type]

\* a header whose JSON gives a number where the path is expected:
\* { "path": 5 }; ext holds the JSON type of the value
NumberPath == [name |-> "5", ext |-> "number"]
IsString(rel) == rel.ext # "number"

EntriesOf(tp, path) == IF MapHas(tp, path) THEN MapGet(tp, path) ELSE <<>>

RECURSIVE CollectExisting(_, _, _)
\* "for (const existing of existingFiles)": targetPaths and deletedPaths
CollectExisting(d, i, st) ==
    IF i > Len(d.existingFiles) THEN st
    ELSE LET existing == d.existingFiles[i]
             oldPath == resolve(d.basePath[1], existing.path)
             updated == MapGet(d.updatedFiles, existing.idx)
             newPath == resolve(d.basePath[1], updated.newPath)
             entry == EntriesOf(st.targetPaths, newPath)
         IN  CollectExisting(d, i + 1,
                IF ~MapHas(d.updatedFiles, existing.idx)
                THEN [st EXCEPT !.deletedPaths =
                         MapSet(@, oldPath, [source |-> existing.headerOffsetRange,
                                             hash |-> existing.hash])]
                ELSE [st EXCEPT !.targetPaths =
                         MapSet(@, newPath,
                            IF updated.content # Null
                            THEN Append(entry, [source |-> updated.headerOffsetRange,
                                                type |-> "write", isNew |-> FALSE])
                            ELSE IF oldPath # newPath
                            THEN Append(entry, [source |-> updated.headerOffsetRange,
                                                type |-> "rename", isNew |-> FALSE])
                            ELSE entry)])

RECURSIVE CollectNew(_, _, _)
\* "for (const newFile of newFiles)"
CollectNew(d, i, st) ==
    IF i > Len(d.newFiles) THEN st
    ELSE LET newFile == d.newFiles[i]
             newPath == resolve(d.basePath[1], newFile.newPath)
             entry == EntriesOf(st.targetPaths, newPath)
         IN  CollectNew(d, i + 1,
                [st EXCEPT !.targetPaths =
                    MapSet(@, newPath,
                        IF newFile.content # Null
                        THEN Append(entry, [source |-> newFile.headerOffsetRange,
                                            type |-> "write", isNew |-> TRUE])
                        ELSE entry)])

\* variant: the conflict annotation alone, no delete+write noop
ConflictOnly(d, targetPath, entries, deletedPaths) ==
    IF Len(entries) > 1
    THEN [k \in 1..Len(entries) |->
             Status(entries[k].source, "Conflict: multiple files write to",
                    Some(relative(d.basePath[1], targetPath)), "error")]
    ELSE <<>>

\* the statuses of one entry list of targetPaths: conflict, or delete+write noop
ConflictOrNoop(d, targetPath, entries, deletedPaths) ==
    IF Len(entries) > 1
    THEN [k \in 1..Len(entries) |->
             Status(entries[k].source, "Conflict: multiple files write to",
                    Some(relative(d.basePath[1], targetPath)), "error")]
    ELSE IF Len(entries) = 1 /\ MapHas(deletedPaths, targetPath)
            /\ entries[1].isNew /\ entries[1].type = "write"
    THEN LET found == {k \in 1..Len(d.newFiles) :
                          d.newFiles[k].headerOffsetRange = entries[1].source}
             newFileInfo == d.newFiles[CHOOSE k \in found : \A j \in found : k <= j]
             deleted == MapGet(deletedPaths, targetPath)
         IN  IF found # {} /\ newFileInfo.content # Null
                /\ computeHash(contentToWrite(newFileInfo)) = deleted.hash
             THEN <<Status(entries[1].source,
                           "Noop: replaces deleted file with identical content",
                           Null, "info"),
                    Status(deleted.source,
                           "Noop: replaced by new file with identical content",
                           Null, "info")>>
             ELSE <<>>
    ELSE <<>>

RECURSIVE ConflictStatuses(_, _, _)
\* "for (const [targetPath, entries] of targetPaths)"
ConflictStatuses(d, st, k) ==
    IF k > Len(st.targetPaths) THEN <<>>
    ELSE ConflictOrNoop(d, st.targetPaths[k].key, st.targetPaths[k].val, st.deletedPaths)
         \o ConflictStatuses(d, st, k + 1)

\* the status of one planned action
ActionStatus(d, action) ==
    IF action.type = "write"
    THEN Status(action.source,
                IF \E i \in 1..Len(d.existingFiles) :
                      /\ MapHas(d.updatedFiles, d.existingFiles[i].idx)
                      /\ MapGet(d.updatedFiles, d.existingFiles[i].idx).headerOffsetRange
                            = action.source
                THEN "Content updated" ELSE "New File",
                Null, "success")
    ELSE IF action.type = "rename"
    THEN Status(action.source, "Renamed from",
                Some(relative(d.basePath[1], action.oldPath)), "info")
    ELSE Status(action.source, "Deleted", Null, "warning")

RECURSIVE ActionStatuses(_, _, _, _)
\* "for (const action of actions)" with its alreadyHasStatus check
ActionStatuses(d, acts, statuses, i) ==
    IF i > Len(acts) THEN statuses
    ELSE ActionStatuses(d, acts,
            IF \E k \in 1..Len(statuses) : statuses[k].range = acts[i].source
            THEN statuses
            ELSE Append(statuses, ActionStatus(d, acts[i])),
            i + 1)

RECURSIVE RenamedTo(_, _)
\* "Renamed to" on the existing-file headers
RenamedTo(d, i) ==
    IF i > Len(d.existingFiles) THEN <<>>
    ELSE LET existing == d.existingFiles[i]
             updated == MapGet(d.updatedFiles, existing.idx)
         IN  (IF MapHas(d.updatedFiles, existing.idx)
                 /\ resolve(d.basePath[1], existing.path)
                      # resolve(d.basePath[1], updated.newPath)
              THEN <<Status(existing.headerOffsetRange, "Renamed to",
                            Some(updated.newPath), "info")>>
              ELSE <<>>)
             \o RenamedTo(d, i + 1)

\* the pass-through of the parser's diagnostics
DiagnosticStatuses(d) ==
    [k \in 1..Len(d.diagnostics) |->
        Status(d.diagnostics[k].range, d.diagnostics[k].message, Null,
               d.diagnostics[k].severity)]

\* path.posix.resolve throws a TypeError for an argument that is no string:
\* the paths the two collecting loops resolve outside of any try block
ResolveThrows(d) ==
    \/ \E i \in 1..Len(d.existingFiles) :
          \/ ~IsString(d.existingFiles[i].path)
          \/ /\ MapHas(d.updatedFiles, d.existingFiles[i].idx)
             /\ ~IsString(MapGet(d.updatedFiles, d.existingFiles[i].idx).newPath)
    \/ \E i \in 1..Len(d.newFiles) : ~IsString(d.newFiles[i].newPath)

\* the MemoryFileSystem the analyzer constructs
emptyFs == [p \in {} |-> <<>>]

\* "try { actions = await buildActions(doc, fs, false) } catch (e) { ... }"
AnalyzedActions(d) ==
    CHOOSE r \in {IF b.error # Null \/ b.fishy THEN <<>> ELSE b.actions :
                     b \in {buildActions(d, emptyFs, FALSE)}} : TRUE

\* analyzeMerchDoc(content, doc); raised stands for the TypeError
analyzeMerchDoc(d) ==
    IF ResolveThrows(d) THEN [statuses |-> <<>>, raised |-> TRUE]
    ELSE CHOOSE r \in
            {[statuses |->
                  ActionStatuses(d, acts, first, 1) \o RenamedTo(d, 1)
                  \o DiagnosticStatuses(d),
              raised |-> FALSE] :
                <<first, acts>> \in
                    {<<ConflictStatuses(d, st, 1), AnalyzedActions(d)>> :
                        st \in {CollectNew(d, 1,
                                   CollectExisting(d, 1,
                                      [targetPaths |-> <<>>, deletedPaths |-> <<>>]))}}} : TRUE

\* a block appended by hand for the analyzer: the blocks of NewBlocks, a new
\* file at the path of A with the content of A, a header with a number as path
AnalyzedBlocks ==
    NewBlocks
    \cup {[path |-> Rel("A"), content |-> Some(cA), eol |-> Null],
          [path |-> NumberPath, content |-> Null, eol |-> Null]}

\* the hand edit of the document the editor shows
Revise ==
    /\ pc = "merged"
    /\ FileHeaderOffsets(content) # {}
    /\ \E fates \in [1..Cardinality(FileHeaderOffsets(content)) -> Fates],
          new \in SeqsUpTo(AnalyzedBlocks, MaxNew) :
          content' = EditedText(content, fates, new)
    /\ pc' = "edited"
    /\ UNCHANGED <<fs, files, doc, actions, done, logs, err, fs0, dryRun, checkHash,
                   overwrote, folded, analysis>>

\* updateDecorations: parseMerchDoc, then analyzeMerchDoc on its result
Analyze ==
    /\ pc \in {"merged", "edited"}
    /\ \E d \in {parseMerchDoc(content)} :
          /\ ~d.thrown
          /\ doc' = d
          /\ \E r \in {analyzeMerchDoc(d)} :
                analysis' = [called |-> TRUE, statuses |-> r.statuses, raised |-> r.raised]
    /\ pc' = "analyzed"
    /\ UNCHANGED <<fs, files, content, actions, done, logs, err, fs0, dryRun,
                   checkHash, overwrote, folded>>

NextAnalyze == Merge \/ Revise \/ Analyze

SpecAnalyze == Init /\ [][NextAnalyze]_vars

----------------------------------------------------------------------------
(* C15: whenever two or more distinct updated or new records resolve to    *)
(* the same target path, analyzeMerchDoc emits a 'Conflict' status of type *)
(* error at the header range of every one of them, folded records that     *)
(* keep their path and updated records without existing file included.     *)

\* the header range and the path of every updated and every new record
TargetRecords(d) ==
    {[range |-> d.updatedFiles[i].val.headerOffsetRange,
      path |-> d.updatedFiles[i].val.newPath] : i \in 1..Len(d.updatedFiles)}
    \cup {[range |-> d.newFiles[i].headerOffsetRange,
           path |-> d.newFiles[i].newPath] : i \in 1..Len(d.newFiles)}

HasStatus(range, message, type) ==
    \E k \in 1..Len(analysis.statuses) :
        /\ analysis.statuses[k].range = range
        /\ analysis.statuses[k].message = message
        /\ analysis.statuses[k].type = type

C15_ConflictOnEveryRecord ==
    (pc = "analyzed" /\ ~analysis.raised) =>
        \A r1 \in TargetRecords(doc), r2 \in TargetRecords(doc) :
            (r1.range # r2.range /\ r1.path = r2.path) =>
                HasStatus(r1.range, "Conflict: multiple files write to", "error")

----------------------------------------------------------------------------
(* C16: when an existing file is deleted (no updated record of its idx)    *)
(* and exactly one new-file record targets its path with content whose     *)
(* eol-normalized hash is the stored hash, analyzeMerchDoc emits exactly   *)
(* two 'Noop' statuses of type info, one on the header of the new file and *)
(* one on the existing-file header, and no 'Deleted' or 'New File' status  *)
(* for the two ranges; when the hashes differ it emits no 'Noop' status    *)
(* and emits 'Deleted' and 'New File'.                                     *)

NoopNew == "Noop: replaces deleted file with identical content"
NoopOld == "Noop: replaced by new file with identical content"

StatusesAt(range, messages) ==
    {k \in 1..Len(analysis.statuses) :
        analysis.statuses[k].range = range /\ analysis.statuses[k].message \in messages}

\* existing record i is deleted and new record k is the one new record at its path
DeletedAndRecreated(d, i, k) ==
    /\ ~MapHas(d.updatedFiles, d.existingFiles[i].idx)
    /\ d.newFiles[k].newPath = d.existingFiles[i].path
    /\ d.newFiles[k].content # Null
    /\ \A j \in 1..Len(d.newFiles) :
          d.newFiles[j].newPath = d.existingFiles[i].path => j = k

SameHash(d, i, k) ==
    computeHash(contentToWrite(d.newFiles[k])) = d.existingFiles[i].hash

NoopReported(d, i, k) ==
    /\ Cardinality(StatusesAt(d.newFiles[k].headerOffsetRange, {NoopNew, NoopOld})) = 1
    /\ Cardinality(StatusesAt(d.existingFiles[i].headerOffsetRange, {NoopNew, NoopOld})) = 1
    /\ HasStatus(d.newFiles[k].headerOffsetRange, NoopNew, "info")
    /\ HasStatus(d.existingFiles[i].headerOffsetRange, NoopOld, "info")
    /\ StatusesAt(d.newFiles[k].headerOffsetRange, {"Deleted", "New File"}) = {}
    /\ StatusesAt(d.existingFiles[i].headerOffsetRange, {"Deleted", "New File"}) = {}

DeleteAndNewReported(d, i, k) ==
    /\ StatusesAt(d.newFiles[k].headerOffsetRange, {NoopNew, NoopOld}) = {}
    /\ StatusesAt(d.existingFiles[i].headerOffsetRange, {NoopNew, NoopOld}) = {}
    /\ HasStatus(d.existingFiles[i].headerOffsetRange, "Deleted", "warning")
    /\ HasStatus(d.newFiles[k].headerOffsetRange, "New File", "success")

NoUpdateTargets(d, i) ==
    \A j \in 1..Len(d.existingFiles) :
        MapHas(d.updatedFiles, d.existingFiles[j].idx) =>
            MapGet(d.updatedFiles, d.existingFiles[j].idx).newPath # d.existingFiles[i].path

----------------------------------------------------------------------------
(* C17: when file X is deleted (no updated record) and a new-file record   *)
(* with content targets the path of X, the plan holds a delete of X and a  *)
(* later write of X, and after the run X exists with the content of the    *)
(* new record; when that content hashes to the stored hash of X and the    *)
(* plan is these two actions, the filesystem after the split is the        *)
(* filesystem before it.                                                   *)

\* existing record i is deleted and new record k writes its path
Recreates(i, k) ==
    /\ ~HasUpdated(i)
    /\ doc.newFiles[k].newPath = Existing(i).path
    /\ doc.newFiles[k].content # Null

DeleteThenWrite(i, k) ==
    \E x \in 1..Len(actions), y \in 1..Len(actions) :
        /\ x < y
        /\ actions[x] = Delete(OldPath(i), Existing(i).headerOffsetRange)
        /\ actions[y] = Write(OldPath(i), contentToWrite(doc.newFiles[k]),
                              doc.newFiles[k].headerOffsetRange)

C17_DeleteThenRecreate ==
    \A i \in 1..NExisting, k \in 1..Len(doc.newFiles) :
        Recreates(i, k) =>
            /\ Planned => DeleteThenWrite(i, k)
            /\ Executed =>
                  /\ OldPath(i) \in DOMAIN fs
                  /\ fs[OldPath(i)] = contentToWrite(doc.newFiles[k])
                  /\ (SameHash(doc, i, k) /\ Len(actions) = 2) => fs = fs0

----------------------------------------------------------------------------
(* C19: splitContent with dryRun = false runs the planned actions one at a *)
(* time in the order of the plan and logs the description of each before   *)
(* running it; if action k fails, actions 1..k-1 stay applied, actions     *)
(* k+1.. are neither logged nor run, and the failure reaches the caller.   *)

RECURSIVE Applied(_, _)
\* the filesystem of the call after the first n actions of the plan
Applied(f, n) == IF n = 0 THEN f ELSE runAction(actions[n], Applied(f, n - 1))

Failed == pc = "failed" /\ err = FileNotFound

C19_InOrderNoRollback ==
    (Planned /\ ~dryRun) =>
        /\ done <= Len(actions)
        /\ fs = Applied(fs0, done)
        /\ logs = [k \in 1..(IF Failed THEN done + 1 ELSE done) |-> describeAction(actions[k])]
        /\ Failed => (done < Len(actions) /\ runActionThrows(actions[done + 1], fs))
        /\ (pc = "done") <=> (done = Len(actions) /\ ~Failed)

C19_Witness ==
    /\ Failed /\ ~dryRun
    /\ done >= 1 /\ done + 1 < Len(actions)
    /\ fs # fs0
    /\ Len(logs) = done + 1

----------------------------------------------------------------------------
(* C18: for every document parseMerchDoc returns, analyzeMerchDoc returns  *)
(* a status list without raising, leaves the filesystem of the workflow as *)
(* it is, and every diagnostic of the parser is in the list with the same  *)
(* range and message and with its severity as type.                        *)

C18_AnalyzerTotal ==
    (pc = "analyzed") =>
        /\ ~analysis.raised
        /\ fs = fs0
        /\ \A k \in 1..Len(doc.diagnostics) :
              HasStatus(doc.diagnostics[k].range, doc.diagnostics[k].message,
                        doc.diagnostics[k].severity)

----------------------------------------------------------------------------
(* The formatting specification: the merge command builds the document     *)
(* with the comment style it is given, and the document is parsed.         *)

\* commentStyle.split('{}') of '// {}', '#{}', '# {}', '/* {} */', '-- {} '
Formatters ==
    {formatter,
     [prefix |-> <<"#">>, suffix |-> <<>>],
     [prefix |-> <<"#", " ">>, suffix |-> <<>>],
     [prefix |-> <<"/", "*", " ">>, suffix |-> <<" ", "*", "/">>],
     [prefix |-> <<"-", "-", " ">>, suffix |-> <<" ">>]}

InitFormat == InitWith(FoldFileSystems \cup PlanFileSystems, {<<PA, PB>>, <<PB, PA>>})

\* the merge command: new LineFormatter(parts[0], parts[1]), then mergeFiles
MergeFormatted ==
    /\ pc = "start"
    /\ \E fmt \in Formatters, withoutContent \in BOOLEAN :
          content' = mergeFiles(files, fmt, baseDir, withoutContent, fs)
    /\ pc' = "merged"
    /\ UNCHANGED <<fs, files, doc, actions, done, logs, err, fs0, dryRun, checkHash,
                   overwrote, folded, analysis>>

NextFormat == MergeFormatted \/ Parse

SpecFormat == InitFormat /\ [][NextFormat]_vars

----------------------------------------------------------------------------
(* C20: for every prefix and suffix of the LineFormatter, every setup,     *)
(* existing-file and file header line mergeFiles emits is recognised by    *)
(* parseMerchDoc with its payload and its colon flag: the built document   *)
(* parses with basePath set and zero diagnostics.                          *)

C20_HeadersRecognised ==
    (pc = "parsed") =>
        /\ ~doc.thrown
        /\ doc.basePath = Some(baseDir)
        /\ doc.diagnostics = <<>>
        /\ \A o \in HeaderOffsets(content) : o \in RecordStarts(doc)
        /\ \A i \in 1..Len(doc.updatedFiles) :
              (doc.updatedFiles[i].val.content # Null)
                  <=> content[doc.updatedFiles[i].val.headerOffsetRange.start + 1].colon

----------------------------------------------------------------------------
(* The extraction specification: the bodies of the file blocks are typed   *)
(* anew by hand, some of them empty or without a final line break, and the *)
(* document is parsed.                                                     *)

\* what is typed below a header: the header loses its colon, or keeps it
\* and is followed by its line break and this text
Bodies ==
    {<<>>, <<Ch(LF)>>, <<Ch("x"), Ch(LF)>>, <<Ch("x"), Ch(CR), Ch(LF)>>,
     <<Ch("x"), Ch(LF), Ch(LF)>>}

RetypedBlock(t, i, body) ==
    IF body = Null
    THEN <<[t[BlockStart(t, i) + 1] EXCEPT !.colon = FALSE]>> \o docLineBreak(t)
    ELSE <<[t[BlockStart(t, i) + 1] EXCEPT !.colon = TRUE]>> \o docLineBreak(t) \o body[1]

RECURSIVE RetypedBlocks(_, _, _)
RetypedBlocks(t, bodies, i) ==
    IF i > Len(bodies) THEN <<>>
    ELSE RetypedBlock(t, i, bodies[i]) \o RetypedBlocks(t, bodies, i + 1)

Retype ==
    /\ pc = "merged"
    /\ FileHeaderOffsets(content) # {}
    /\ \E bodies \in [1..Cardinality(FileHeaderOffsets(content)) ->
                        {Null} \cup {Some(b) : b \in Bodies}] :
          content' = SubSeq(content, 1, BlockStart(content, 1))
                     \o RetypedBlocks(content, bodies, 1)
    /\ pc' = "damaged"
    /\ UNCHANGED <<fs, files, doc, actions, done, logs, err, fs0, dryRun, checkHash,
                   overwrote, folded, analysis>>

NextExtract == Merge \/ Retype \/ Parse

SpecExtract == InitFormat /\ [][NextExtract]_vars

----------------------------------------------------------------------------
(* C21: for a file header with a trailing colon the parsed content is the  *)
(* text from the character after the line break of the header line up to   *)
(* the start of the next header-like line, or the end of the document,     *)
(* with exactly one trailing line break (LF or CR LF) removed: the empty   *)
(* string when the next header or the end of the document follows the line *)
(* break at once; a header without trailing colon gets content = null.     *)

\* the text of the block below the header line that ends at offset e
BlockText(t, e) ==
    LET start == SkipBreak(t, e)
        later == {h \in HeaderOffsets(t) : h >= e}
        stop == IF later = {} THEN Len(t)
                ELSE CHOOSE h \in later : \A g \in later : h <= g
    IN  IF stop > start THEN SubSeq(t, start + 1, stop) ELSE <<>>

\* text without its one trailing line break
Chomp(text) ==
    IF Len(text) >= 2 /\ IsCh(text[Len(text) - 1], CR) /\ IsCh(text[Len(text)], LF)
    THEN SubSeq(text, 1, Len(text) - 2)
    ELSE IF Len(text) >= 1 /\ IsCh(text[Len(text)], LF)
    THEN SubSeq(text, 1, Len(text) - 1)
    ELSE text

C21_ContentExtraction ==
    (pc = "parsed" /\ ~doc.thrown) =>
        \A i \in 1..Len(doc.updatedFiles) :
            LET r == doc.updatedFiles[i].val
                e == r.headerOffsetRange.endExclusive
            IN  IF content[e].colon
                THEN r.content = Some(Chomp(BlockText(content, e)))
                ELSE r.content = Null

----------------------------------------------------------------------------
(* C22: after parsing, the diagnostics hold exactly one warning 'No        *)
(* existing-file found with idx n', at the header range of the record, for *)
(* every key n of updatedFiles that is the idx of no existing-file record, *)
(* and none for the other keys; the orphan record stays in updatedFiles    *)
(* and is planned as a write.                                              *)

OrphanWarningsOf(key) ==
    {k \in 1..Len(doc.diagnostics) :
        /\ doc.diagnostics[k].message = "No existing-file found with idx"
        /\ doc.diagnostics[k].idx = key}

WarnedOnce(n) ==
    LET key == doc.updatedFiles[n].key
    IN  IF HasExisting(doc, key) THEN OrphanWarningsOf(key) = {}
        ELSE /\ Cardinality(OrphanWarningsOf(key)) = 1
             /\ \A k \in OrphanWarningsOf(key) :
                   /\ doc.diagnostics[k].severity = "warning"
                   /\ doc.diagnostics[k].range = doc.updatedFiles[n].val.headerOffsetRange

WritePlanned(rec) ==
    \E k \in 1..Len(actions) :
        actions[k] = Write(resolve(doc.basePath[1], rec.newPath), contentToWrite(rec),
                           rec.headerOffsetRange)

C22_OrphanAlwaysWritten ==
    /\ Parsed => \A n \in 1..Len(doc.updatedFiles) : WarnedOnce(n)
    /\ Planned =>
          \A n \in 1..Len(doc.updatedFiles) :
              ~HasExisting(doc, doc.updatedFiles[n].key) =>
                  \E k \in ActionsOf(doc.updatedFiles[n].val) :
                      /\ actions[k].type = "write"
                      /\ actions[k].path =
                            resolve(doc.basePath[1], doc.updatedFiles[n].val.newPath)

(* C22 as amended: ... the orphan record stays in updatedFiles and is      *)
(* planned as a write when its content is not null, and gets no action     *)
(* when it is folded.                                                      *)

C22_OrphanWarning ==
    /\ Parsed => \A n \in 1..Len(doc.updatedFiles) : WarnedOnce(n)
    /\ Planned =>
          \A n \in 1..Len(doc.updatedFiles) :
              ~HasExisting(doc, doc.updatedFiles[n].key) =>
                  IF doc.updatedFiles[n].val.content # Null
                  THEN WritePlanned(doc.updatedFiles[n].val)
                  ELSE ActionsOf(doc.updatedFiles[n].val) = {}

C22_Witness ==
    /\ Planned
    /\ Len(doc.updatedFiles) = 2
    /\ HasExisting(doc, doc.updatedFiles[1].key)
    /\ doc.updatedFiles[2].key = OrphanIdx
    /\ doc.updatedFiles[2].val.content # Null
    /\ Cardinality(OrphanWarningsOf(OrphanIdx)) = 1
    /\ WritePlanned(doc.updatedFiles[2].val)

----------------------------------------------------------------------------
(* The renaming specification: three tracked files, one of them at the     *)
(* path a cycle through A uses as its temporary; the paths of the file     *)
(* headers are edited by hand, and the document is split.                  *)

TempFileSystems ==
    {[p \in {PA, PB, PATemp} |-> IF p = PA THEN cA ELSE IF p = PB THEN cB ELSE cT]}

InitTemp == InitWith(TempFileSystems, {<<PA, PB, PATemp>>})

RepathFates ==
    {DeleteBlock}
    \cup [del : {FALSE}, path : {Rel("A"), Rel("B"), Rel("A_temp"), Rel("C")},
          body : {"same", "fold", "edit"}, orphan : {FALSE}]

Repath ==
    /\ pc = "merged"
    /\ FileHeaderOffsets(content) # {}
    /\ \E fates \in [1..Cardinality(FileHeaderOffsets(content)) -> RepathFates] :
          content' = EditedText(content, fates, <<>>)
    /\ pc' = "edited"
    /\ UNCHANGED <<fs, files, doc, actions, done, logs, err, fs0, dryRun, checkHash,
                   overwrote, folded, analysis>>

NextTemp == Merge \/ Repath \/ Split \/ RunNext

SpecTemp == InitTemp /\ [][NextTemp]_vars

----------------------------------------------------------------------------
(* C23: buildActions never throws 'Something is fishy, from should not     *)
(* have been processed yet', whatever the pending renames: cycles, chains  *)
(* that lead into cycles, several sources with one target, temporary paths *)
(* that are tracked paths.                                                 *)

C23_NoFishyError ==
    /\ err # FishyError
    /\ Parsed => ~buildActions(doc, fs0, FALSE).fishy

\* a plan for three renames in a cycle, closed over a temporary path
C23_Witness ==
    /\ Planned
    /\ Len(RenameActions) = 4
    /\ \E k \in 1..Len(actions) :
          actions[k].type = "rename" /\ actions[k].oldPath = tempPath(actions[k].newPath)


----------------------------------------------------------------------------
(* The numbering specification: the idx fields of the existing-file lines  *)
(* of the built document are retyped by hand and the document is parsed.   *)

ExistingOffsets(t) == {o \in HeaderOffsets(t) : t[o + 1].cmd = "existing-file"}

\* the text with the idx of the existing-file line at every offset set to n[o]
Renumbered(t, n) ==
    [k \in 1..Len(t) |->
        IF (k - 1) \in DOMAIN n THEN [t[k] EXCEPT !.data.idx = Some(n[k - 1])] ELSE t[k]]

Renumber ==
    /\ pc = "merged"
    /\ \E n \in [ExistingOffsets(content) -> 0..MaxLen] :
          content' = Renumbered(content, n)
    /\ pc' = "damaged"
    /\ UNCHANGED <<fs, files, doc, actions, done, logs, err, fs0, dryRun, checkHash,
                   overwrote, folded, analysis>>

NextNumber == Merge \/ Renumber \/ Parse

SpecNumber == InitFold /\ [][NextNumber]_vars

----------------------------------------------------------------------------
(* C24: in every document that parseMerchDoc returns, the idx values of    *)
(* existingFiles are pairwise distinct.                                    *)

C24_ExistingIdxDistinct ==
    (pc = "parsed" /\ ~doc.thrown) =>
        \A i, j \in 1..Len(doc.existingFiles) :
            doc.existingFiles[i].idx = doc.existingFiles[j].idx => i = j


----------------------------------------------------------------------------
(* C25: for every existing-file/updated-file pair with the same idx whose  *)
(* resolved paths differ, analyzeMerchDoc emits 'Renamed to <new path>' on *)
(* the existing-file header and 'Renamed from <old path>' on the updated   *)
(* file's header, also for an edited file and in a cycle; for a pair whose *)
(* paths are equal it emits neither.                                       *)

Names2(range, message) ==
    \E k \in 1..Len(analysis.statuses) :
        /\ analysis.statuses[k].range = range
        /\ analysis.statuses[k].message = message

RenamedToShown(i) ==
    \E k \in 1..Len(analysis.statuses) :
        analysis.statuses[k] =
            Status(Existing(i).headerOffsetRange, "Renamed to",
                   Some(Updated(i).newPath), "info")

RenamedFromShown(i) ==
    \E k \in 1..Len(analysis.statuses) :
        analysis.statuses[k] =
            Status(Updated(i).headerOffsetRange, "Renamed from",
                   Some(Existing(i).path), "info")

C25_RenameAnnotationsSymmetric ==
    (pc = "analyzed" /\ ~analysis.raised) =>
        \A i \in 1..NExisting :
            HasUpdated(i) =>
                IF OldPath(i) # NewPath(i)
                THEN RenamedToShown(i) /\ RenamedFromShown(i)
                ELSE /\ ~Names2(Existing(i).headerOffsetRange, "Renamed to")
                     /\ ~Names2(Updated(i).headerOffsetRange, "Renamed from")


----------------------------------------------------------------------------
(* C26: when splitContent fails with HashMismatchError, or parseMerchDoc   *)
(* throws, no write, rename or delete has been performed and no action has *)
(* been logged: the filesystem after the failure equals the filesystem     *)
(* before the call.                                                        *)

VerificationFailed == pc = "failed" /\ (HashError \/ err = NoBasePathError)

----------------------------------------------------------------------------
(* C27: splitContent with dryRun = true leaves the filesystem unchanged,   *)
(* returns the same action list and passes the same messages to the logger *)
(* in the same order as the call with dryRun = false would on the same     *)
(* document and the same initial filesystem.                               *)

RECURSIVE splitLoop(_, _, _, _)
\* "for (const action of actions)" of splitContent as a whole, from action i on:
\* the messages logged, the filesystem left, whether runAction threw
splitLoop(acts, f, dry, i) ==
    IF i > Len(acts) THEN [logs |-> <<>>, fs |-> f, thrown |-> FALSE]
    ELSE IF ~dry /\ runActionThrows(acts[i], f)
    THEN [logs |-> <<describeAction(acts[i])>>, fs |-> f, thrown |-> TRUE]
    ELSE CHOOSE r \in
            {[rest EXCEPT !.logs = <<describeAction(acts[i])>> \o @] :
                rest \in {splitLoop(acts, IF dry THEN f ELSE runAction(acts[i], f),
                                    dry, i + 1)}} : TRUE

DryRunReturned == pc = "done" /\ dryRun

C27_DryRunSameAsRun ==
    DryRunReturned =>
        /\ fs = fs0
        /\ ~splitLoop(actions, fs0, FALSE, 1).thrown
        /\ splitLoop(actions, fs0, FALSE, 1).logs = logs


----------------------------------------------------------------------------
(* C28: the loop "while (renames.size > 0)" of buildActions ends; every    *)
(* walk removes strictly more entries from the pending map than it adds,   *)
(* and the number of rename actions emitted is at most the number of       *)
(* pending renames plus the number of cycles broken.                       *)

\* the pending map as the loop over existingFiles leaves it
PendingRenames(d) == PlanExistingFiles(d, 1, [actions |-> <<>>, renames |-> <<>>]).renames

\* one walk: processRename(first key, new Set())
Walk(st) == processRename(st.renames[1].key, [st EXCEPT !.processed = {}])

RECURSIVE WalksShrink(_)
\* every walk from st on leaves the pending map smaller than it found it
WalksShrink(st) ==
    \/ st.renames = <<>>
    \/ \E after \in {Walk(st)} :
          /\ ~after.fishy
          /\ Len(after.renames) < Len(st.renames)
          /\ WalksShrink(after)

RECURSIVE Orbit(_, _, _)
\* the paths the pending map m leads to from p in 1..n steps
Orbit(m, p, n) ==
    IF n = 0 \/ ~MapHas(m, p) THEN {}
    ELSE {MapGet(m, p).newPath} \cup Orbit(m, MapGet(m, p).newPath, n - 1)

\* the cycles of the pending map, each as the set of its paths
Cycles(m) ==
    {Orbit(m, m[k].key, Len(m)) : k \in {j \in 1..Len(m) : m[j].key \in Orbit(m, m[j].key, Len(m))}}

RenamesPlanned(d) ==
    Len(SelectSeq(buildActions(d, emptyFs, FALSE).actions, LAMBDA a : a.type = "rename"))

C28_RenameResolutionTerminates ==
    Parsed =>
        /\ WalksShrink([renames |-> PendingRenames(doc), actions |-> <<>>,
                        processed |-> {}, fishy |-> FALSE])
        /\ RenamesPlanned(doc)
              <= Len(PendingRenames(doc)) + Cardinality(Cycles(PendingRenames(doc)))

\* a chain that leads into a cycle: three pending renames, one cycle, four
\* rename actions
C28_Witness ==
    /\ Planned
    /\ Len(PendingRenames(doc)) = 3
    /\ Cardinality(Cycles(PendingRenames(doc))) = 1
    /\ Len(RenameActions) = 4


----------------------------------------------------------------------------
(* C29: for every document in which no two records resolve to the same     *)
(* target path, after the plan is executed each new-file record with       *)
(* content exists at its resolved path and holds its eol-normalized        *)
(* content, also when that path is the old path of a tracked file that the *)
(* document renames elsewhere.                                             *)

\* no two updated or new records resolve to the same target path
DistinctTargets ==
    \A r1 \in TargetRecords(doc), r2 \in TargetRecords(doc) :
        (resolve(doc.basePath[1], r1.path) = resolve(doc.basePath[1], r2.path))
            => r1.range = r2.range

C29_NewFilesSurviveRenames ==
    (Executed /\ DistinctTargets) =>
        \A k \in 1..Len(doc.newFiles) :
            doc.newFiles[k].content # Null =>
                LET path == resolve(doc.basePath[1], doc.newFiles[k].newPath)
                IN  path \in DOMAIN fs /\ fs[path] = contentToWrite(doc.newFiles[k])

----------------------------------------------------------------------------
(* C30: for every document in which no two records resolve to the same     *)
(* target path, executing the plan leaves at its path and with its         *)
(* original content every tracked file whose updated record keeps the old  *)
(* path and is folded or hashes to the stored hash; the temporary path     *)
(* that breaks a rename cycle never coincides with the path of such a file.*)

\* record i keeps its path and its content
Untouched(i) ==
    /\ HasUpdated(i)
    /\ NewPath(i) = OldPath(i)
    /\ \/ Updated(i).content = Null
       \/ computeHash(contentToWrite(Updated(i))) = Existing(i).hash

C30_UnchangedFilesUntouched ==
    (Executed /\ DistinctTargets) =>
        \A i \in 1..NExisting :
            (Untouched(i) /\ OldPath(i) \in DOMAIN fs0) =>
                OldPath(i) \in DOMAIN fs /\ fs[OldPath(i)] = fs0[OldPath(i)]

====
